---------------------------- MODULE Spec2Model ----------------------------
(***************************************************************************)
(* Verification model of the AIVM compilation pipeline (crates/aivm):      *)
(* the decoder of compile.rs, the Interpreter back-end and its Runner, and *)
(* the JIT back-end (IR builder, register allocator, x86-64 lowering).     *)
(*                                                                         *)
(* A 64-bit code word is kept as its two 32-bit halves [lo, hi]; VM values *)
(* are i64 values whose magnitude stays far below 2^63 under the bounds    *)
(* used here, so wrapping arithmetic coincides with integer arithmetic.    *)
(***************************************************************************)
EXTENDS Integers, Sequences, FiniteSets, TLC

VARIABLES
    code,        \* the code slice handed to compile: Seq of [lo, hi]
    params,      \* [lowest_function_level, input_size, output_size, memory_size, freq]
    phase,       \* "new" | "ready" | "running" | "done" | "panic"
    panic,       \* "none" or the panic that aborted the program
    funcs,       \* Compiler::funcs after pass 1 (first_instruction, instruction_count)
    functions,   \* Interpreter/Runner::functions: Seq of Seq of Instruction
    runner,      \* the Runner's size fields as stored by finish
    memory,      \* the host's memory slice (0-based function)
    stack,       \* the chain of active call_function frames, innermost last
    steps,       \* number of Runner::step calls started so far
    jphase,      \* the Jit back-end: "off" | "new" | "ready" | "running" | "done" | "panic"
    jpanic,      \* "none" or the panic that aborted the Jit back-end
    jfunctions,  \* the reg_allocs of Jit::functions as assembled by finish
    jrunner,     \* the size fields of the Jit Runner as stored by finish
    jmemory,     \* the memory slice handed to the Jit Runner
    machine,     \* registers and frames of the generated code while it runs
    jsteps,      \* number of Jit Runner::step calls started so far
    jir,         \* the ir of Jit::functions as finalize left it: for each function
                 \* the blocks, the dominators, the frontiers and the renamed blocks
    compiler,    \* a Compiler<Interpreter> and a Compiler<Jit> that are used for
                 \* several compilations, and the Runners they returned
    light        \* the blocks of the functions as the Emitter of light_jit built
                 \* them, and its pending branch targets

ivars == <<phase, panic, funcs, functions, runner, memory, stack, steps>>
jvars == <<jphase, jpanic, jfunctions, jrunner, jmemory, machine, jsteps, jir>>
vars == <<code, params, phase, panic, funcs, functions, runner, memory, stack, steps,
          jphase, jpanic, jfunctions, jrunner, jmemory, machine, jsteps, jir, compiler,
          light>>

-----------------------------------------------------------------------------
(* Bounds of the model *)

MaxCodeLen == 5
MaxSteps == 2
MaxDepth == 8
MaxCallCodeLen == 7
MaxLevel == 4
MaxPad == 2

-----------------------------------------------------------------------------
(* frequency.rs: the opcode order of the dispatch chain and the weights *)

OpNames ==
    << "END_FUNC", "CALL", "INT_ADD", "INT_SUB", "INT_MUL", "INT_MUL_HIGH",
       "INT_MUL_HIGH_UNSIGNED", "INT_NEG", "INT_ABS", "INT_INC", "INT_DEC",
       "INT_MIN", "INT_MAX", "BIT_SWAP", "BIT_OR", "BIT_AND", "BIT_XOR",
       "BIT_NOT", "BIT_SHIFT_L", "BIT_SHIFT_R", "BIT_ROT_L", "BIT_ROT_R",
       "BIT_SELECT", "BIT_POPCNT", "BIT_REVERSE", "BRANCH_CMP", "BRANCH_ZERO",
       "BRANCH_NON_ZERO", "MEM_LOAD", "INPUT_LOAD", "MEM_STORE", "OUTPUT_STORE" >>

\* The default weights with OUTPUT_STORE one selector short.
DefaultFrequencies_short ==
    << 55, 1510, 1510, 1510, 1510, 1510,
       1510, 1510, 1510, 1510, 1510,
       1510, 1510, 0, 1510, 1510, 3020,
       1510, 1510, 1510, 1510, 1510,
       1510, 1510, 1510, 1966, 655,
       655, 8234, 8235, 4748, 4747 >>

\* The weights of the trait's defaults, in the order of OpNames.  BIT_SWAP is
\* named by the dispatch chain only; the trait gives it no weight.
DefaultFrequencies ==
    << 55, 1510, 1510, 1510, 1510, 1510,
       1510, 1510, 1510, 1510, 1510,
       1510, 1510, 0, 1510, 1510, 3020,
       1510, 1510, 1510, 1510, 1510,
       1510, 1510, 1510, 1966, 655,
       655, 8234, 8235, 4748, 4748 >>

\* A table without END_FUNC and without arithmetic: calls, branches, memory.
ControlFrequencies ==
    << 0, 16384, 0, 0, 0, 0,
       0, 0, 0, 8192, 0,
       0, 0, 0, 0, 0, 0,
       0, 0, 0, 0, 0,
       0, 0, 0, 8192, 8192,
       8192, 4096, 4096, 4096, 4096 >>

\* A table in which half of the selectors end a function.
ShortFrequencies ==
    << 32768, 8192, 0, 0, 0, 0,
       0, 0, 0, 8192, 0,
       0, 0, 0, 0, 0, 0,
       0, 0, 0, 0, 0,
       0, 0, 0, 0, 8192,
       0, 0, 0, 0, 8192 >>

RECURSIVE SumSeq(_)
SumSeq(s) == IF s = <<>> THEN 0 ELSE s[1] + SumSeq(Tail(s))

\* InstructionFrequencies::sum_delta
sum_delta(F) == 65536 - SumSeq(F)

OpIndex(name) == CHOOSE k \in 1..Len(OpNames) : OpNames[k] = name

Freq(F, name) == F[OpIndex(name)]

\* First selector that the table F resolves to opcode `name`.
FirstSelector(F, name) == SumSeq(SubSeq(F, 1, OpIndex(name) - 1))

-----------------------------------------------------------------------------
(* compile.rs: field extraction (lines 119-127) *)

Kind(w) == w.lo % 65536
FieldA(w) == (w.lo \div 65536) % 64
FieldB(w) == (w.lo \div 4194304) % 64
Imm(w) == w.hi
FieldC(w) == w.hi % 64
FieldD(w) == (w.hi \div 16384) % 64

\* Builds the word with the given selector, a, b and immediate.
MkWord(kind, a, b, imm) == [lo |-> kind + 65536 * a + 4194304 * b, hi |-> imm]

-----------------------------------------------------------------------------
(* compile.rs: helpers *)

\* ceil_div_rem that forgets to round up.
ceil_div_rem_floor(x, y) == << x \div y, x % y >>

\* ceil_div_rem(x, y): <<ceil(x/y), x mod y>>
ceil_div_rem(x, y) ==
    LET div == x \div y
        rem == x % y
    IN  << div + (IF rem # 0 THEN 1 ELSE 0), rem >>

\* A chain whose cmp_freq also accepts a selector equal to the weight.
RECURSIVE cmp_freq_chain_inclusive(_, _, _)
cmp_freq_chain_inclusive(kind, F, k) ==
    IF k > Len(OpNames) THEN "PANIC"
    ELSE IF kind <= F[k] /\ F[k] > 0 THEN OpNames[k]
    ELSE cmp_freq_chain_inclusive(kind - F[k], F, k + 1)

\* cmp_freq applied along the chain from opcode index k on: the opcode whose
\* cumulative interval holds `kind`, or "PANIC" when the chain is exhausted.
RECURSIVE cmp_freq_chain(_, _, _)
cmp_freq_chain(kind, F, k) ==
    IF k > Len(OpNames) THEN "PANIC"
    ELSE IF kind < F[k] THEN OpNames[k]
    ELSE cmp_freq_chain(kind - F[k], F, k + 1)

\* The opcode that the dispatch chain (lines 129-250) selects for a selector.
OpOf(kind, F) ==
    IF kind < F[1] THEN "END_FUNC" ELSE cmp_freq_chain(kind - F[1], F, 2)

\* The u32 remainder x % y; -1 stands for the panic of a zero divisor.
Rem(x, y) == IF y = 0 THEN -1 ELSE x % y

\* branch_offset that measures from the start of the function, whatever the
\* position of the branch.
branch_offset_from_start(imm, instruction_count, cur_offset) ==
    LET max_offset == instruction_count - 1
    IN  IF max_offset > 1 /\ Rem(imm, max_offset) # 0
        THEN [underflow |-> FALSE, some |-> TRUE, offset |-> Rem(imm, max_offset)]
        ELSE [underflow |-> FALSE, some |-> FALSE, offset |-> 0]

\* branch_offset that takes the distance to the end of the function for
\* max_offset, without the `- 1`.
branch_offset_no_room(imm, instruction_count, cur_offset) ==
    LET max_offset == instruction_count - cur_offset
    IN  IF max_offset > 1 /\ Rem(imm, max_offset) # 0
        THEN [underflow |-> FALSE, some |-> TRUE, offset |-> Rem(imm, max_offset)]
        ELSE [underflow |-> FALSE, some |-> FALSE, offset |-> 0]

\* branch_offset(imm, func, cur_offset): [underflow, some, offset]; offset -1
\* stands for the panic of a zero divisor.
branch_offset(imm, instruction_count, cur_offset) ==
    LET max_offset == instruction_count - cur_offset - 1
    IN  IF max_offset < 0
        THEN [underflow |-> TRUE, some |-> FALSE, offset |-> 0]
        ELSE IF max_offset > 1 /\ Rem(imm, max_offset) # 0
        THEN [underflow |-> FALSE, some |-> TRUE, offset |-> Rem(imm, max_offset)]
        ELSE [underflow |-> FALSE, some |-> FALSE, offset |-> 0]

saturating_sub(x, y) == IF x >= y THEN x - y ELSE 0

\* Function::new
NewFunction(first) == [first_instruction |-> first, instruction_count |-> 0]

-----------------------------------------------------------------------------
(* The emitter calls of codegen/mod.rs as uniform instruction records.     *)
(* r: register operands in the order of the emitter call; n: call index,   *)
(* branch offset, address or shift amount; ck: compare kind; bank: memory  *)
(* bank of a load or store.                                                *)

Inst(kind, r, n, ck, bank) == [kind |-> kind, r |-> r, n |-> n, ck |-> ck, bank |-> bank]

Nop == Inst("Nop", <<>>, 0, "-", "-")

CompareKindOf(a) ==
    CASE a % 4 = 0 -> "Eq"
      [] a % 4 = 1 -> "Neq"
      [] a % 4 = 2 -> "Gt"
      [] OTHER -> "Lt"

BranchKinds == {"BranchCmp", "BranchZero", "BranchNonZero"}

-----------------------------------------------------------------------------
(* compile.rs: pass 1, function partitioning (lines 76-92) *)

\* The loop over the words lo..hi of the code, in order (the range is
\* halved so that the evaluation stays shallow); fs always holds the
\* function whose words are being counted.
RECURSIVE Scan(_, _, _, _, _)
Scan(c, F, lo, hi, fs) ==
    IF lo > hi \/ fs = <<>> THEN fs
    ELSE IF lo = hi
    THEN IF Kind(c[lo]) < F[1]
         THEN Append(fs, NewFunction(lo))
         ELSE [fs EXCEPT ![Len(fs)].instruction_count = @ + 1]
    ELSE Scan(c, F, (lo + hi) \div 2 + 1, hi, Scan(c, F, lo, (lo + hi) \div 2, fs))

\* Pass 1 without the retain of line 89.
Pass1_keeping_empty(c, F) == Scan(c, F, 1, Len(c), << NewFunction(0) >>)

\* `c[i]` is 1-based here, so Function::new(i + 1) of the 0-based source index
\* is NewFunction(i) with first_instruction counted in 0-based words.
Pass1(c, F) ==
    LET counted == Scan(c, F, 1, Len(c), << NewFunction(0) >>)
        retained == SelectSeq(counted, LAMBDA fn : fn.instruction_count > 0)
    IN  IF retained = <<>> THEN << NewFunction(0) >> ELSE retained

\* level_size (lines 94-99)
LevelSize(func_count, lowest_function_level) ==
    IF lowest_function_level = 0 THEN 0
    ELSE ceil_div_rem(func_count - 1, lowest_function_level)[1]

\* cur_level that is never raised above the level of function 0.
CurLevel_zero(f, level_size) == 0

\* cur_level (lines 109-113)
CurLevel(f, level_size) ==
    IF f = 0 \/ level_size = 0 THEN 0 ELSE 1 + (f - 1) \div level_size

\* min_idx that admits the first function of the caller's own level.
MinIdx_own_level(cur_level, level_size) == cur_level * level_size

\* min_idx (line 139)
MinIdx(cur_level, level_size) == 1 + cur_level * level_size

-----------------------------------------------------------------------------
(* compile.rs: pass 2, the lowering of one word (lines 119-250).           *)
(* Result: [panic, inst]; inst is the emitter call issued for the word.    *)

\* The CALL arm (lines 134-148).
EmitCall(imm, f, func_count, level_size) ==
    IF level_size = 0 THEN Nop
    ELSE LET min_idx == MinIdx(CurLevel(f, level_size), level_size)
             callable_count == saturating_sub(func_count, min_idx)
         IN  IF callable_count = 0 THEN Nop
             ELSE Inst("Call", <<>>,
                       IF callable_count = 0 THEN -1 ELSE min_idx + Rem(imm, callable_count),
                       "-", "-")

\* A load or store lowered without the check of the bank's size.
EmitMem_unchecked(kind, bank, size, a, imm) ==
    Inst(kind, << a >>, Rem(imm, size), "-", bank)

\* A load or store that carries the immediate as its address.
EmitMem_unreduced(kind, bank, size, a, imm) ==
    IF size # 0 THEN Inst(kind, << a >>, imm, "-", bank) ELSE Nop

\* The four memory arms (lines 220-247).
EmitMem(kind, bank, size, a, imm) ==
    IF size # 0 THEN Inst(kind, << a >>, Rem(imm, size), "-", bank) ELSE Nop

DecodeWord(w, i, func, f, func_count, level_size, p) ==
    LET F == p.freq
        a == FieldA(w)
        b == FieldB(w)
        c == FieldC(w)
        d == FieldD(w)
        imm == Imm(w)
        underflow == Kind(w) < F[1]
        op == IF underflow THEN "PANIC" ELSE OpOf(Kind(w), F)
        bo == branch_offset(imm, func.instruction_count, i)
        three(k) == Inst(k, << a, b, c >>, 0, "-", "-")
        two(k) == Inst(k, << a, b >>, 0, "-", "-")
        one(k) == Inst(k, << a >>, 0, "-", "-")
        shift(k) == Inst(k, << a, b >>, c % 64, "-", "-")
        inst ==
          CASE op = "CALL" -> EmitCall(imm, f, func_count, level_size)
            [] op = "INT_ADD" -> three("IntAdd")
            [] op = "INT_SUB" -> three("IntSub")
            [] op = "INT_MUL" -> three("IntMul")
            [] op = "INT_MUL_HIGH" -> three("IntMulHigh")
            [] op = "INT_MUL_HIGH_UNSIGNED" -> three("IntMulHighUnsigned")
            [] op = "INT_NEG" -> two("IntNeg")
            [] op = "INT_ABS" -> two("IntAbs")
            [] op = "INT_INC" -> one("IntInc")
            [] op = "INT_DEC" -> one("IntDec")
            [] op = "INT_MIN" -> three("IntMin")
            [] op = "INT_MAX" -> three("IntMax")
            [] op = "BIT_SWAP" -> two("BitSwap")
            [] op = "BIT_OR" -> three("BitOr")
            [] op = "BIT_AND" -> three("BitAnd")
            [] op = "BIT_XOR" -> three("BitXor")
            [] op = "BIT_NOT" -> two("BitNot")
            [] op = "BIT_SHIFT_L" -> shift("BitShiftLeft")
            [] op = "BIT_SHIFT_R" -> shift("BitShiftRight")
            [] op = "BIT_ROT_L" -> shift("BitRotateLeft")
            [] op = "BIT_ROT_R" -> shift("BitRotateRight")
            [] op = "BIT_SELECT" -> Inst("BitSelect", << a, b, c, d >>, 0, "-", "-")
            [] op = "BIT_POPCNT" -> two("BitPopcnt")
            [] op = "BIT_REVERSE" -> two("BitReverse")
            [] op = "BRANCH_CMP" ->
                 IF bo.some
                 THEN Inst("BranchCmp", << b, c >>, bo.offset, CompareKindOf(a), "-")
                 ELSE Nop
            [] op = "BRANCH_ZERO" ->
                 IF bo.some THEN Inst("BranchZero", << a >>, bo.offset, "-", "-") ELSE Nop
            [] op = "BRANCH_NON_ZERO" ->
                 IF bo.some THEN Inst("BranchNonZero", << a >>, bo.offset, "-", "-") ELSE Nop
            [] op = "MEM_LOAD" -> EmitMem("MemLoad", "Memory", p.memory_size, a, imm)
            [] op = "INPUT_LOAD" -> EmitMem("MemLoad", "Input", p.input_size, a, imm)
            [] op = "MEM_STORE" -> EmitMem("MemStore", "Memory", p.memory_size, a, imm)
            [] op = "OUTPUT_STORE" -> EmitMem("MemStore", "Output", p.output_size, a, imm)
            [] OTHER -> Nop
        isBranch == op \in {"BRANCH_CMP", "BRANCH_ZERO", "BRANCH_NON_ZERO"}
    IN  [ panic |->
            IF underflow THEN "kind -= END_FUNC underflows"
            ELSE IF op = "PANIC" THEN "instruction frequencies don't add up to 65536"
            ELSE IF isBranch /\ bo.underflow THEN "branch_offset underflows"
            ELSE IF inst.n < 0 THEN "remainder with a divisor of zero"
            ELSE "none",
          inst |-> inst ]

\* The words of function `func`, in-function offsets 0 .. instruction_count-1.
FuncWord(c, func, i) == c[func.first_instruction + i + 1]

\* A lowering in which emit_nop pushes nothing.
DecodeFunction_dropping_nops(c, fs, f, level_size, p) ==
    SelectSeq([ i \in 1..fs[f + 1].instruction_count |->
                  DecodeWord(FuncWord(c, fs[f + 1], i - 1), i - 1, fs[f + 1], f,
                             Len(fs), level_size, p) ],
              LAMBDA d : d.inst # Nop)

\* Lowering of one function: the sequence of [panic, inst] of its words.
DecodeFunction(c, fs, f, level_size, p) ==
    [ i \in 1..fs[f + 1].instruction_count |->
        DecodeWord(FuncWord(c, fs[f + 1], i - 1), i - 1, fs[f + 1], f,
                   Len(fs), level_size, p) ]

\* Compiler::compile_with_frequencies for a back-end that records the
\* emitter calls: [panic, funcs, functions].  (The assert_ne! on
\* lowest_function_level excludes u32::MAX, a value outside the parameters
\* drawn here.)
compile_with_frequencies(c, p) ==
    LET fs == Pass1(c, p.freq)
        level_size == LevelSize(Len(fs), p.lowest_function_level)
        decoded == [ f \in 1..Len(fs) |-> DecodeFunction(c, fs, f - 1, level_size, p) ]
        allPanics == UNION { { decoded[f][i].panic : i \in 1..Len(decoded[f]) }
                             : f \in 1..Len(fs) }
    IN  [ panic |->
            IF allPanics \subseteq {"none"} THEN "none"
            ELSE CHOOSE x \in allPanics : x # "none",
          funcs |-> fs,
          level_size |-> level_size,
          functions |-> [ f \in 1..Len(fs) |->
                            [ i \in 1..Len(decoded[f]) |-> decoded[f][i].inst ] ] ]

\* Interpreter::finish(memory_size, output_size, input_size) as called at
\* compile.rs:256 with (input_size, output_size, memory_size).
InterpreterFinish(x, y, z) == [memory_size |-> x, output_size |-> y, input_size |-> z]

-----------------------------------------------------------------------------
(* interpreter.rs: Runner *)

ZeroRegs == [ r \in 0..63 |-> 0 ]

\* An invocation whose register array starts as [1; 64].
Frame_ones(idx) ==
    [idx |-> idx, ip |-> 0, skip_count |-> 0, regs |-> [ r \in 0..63 |-> 1 ]]

\* The locals of one call_function invocation: the function, the position of
\* the iterator, skip_count and the register array `stack`.
Frame(idx) == [idx |-> idx, ip |-> 0, skip_count |-> 0, regs |-> ZeroRegs]

\* Start of the bank inside the slice: memory, input, output in that order
\* (lib.rs, doc of Runner::step).
BankBase(bank, p) ==
    CASE bank = "Memory" -> 0
      [] bank = "Input" -> p.memory_size
      [] OTHER -> p.memory_size + p.input_size

SliceIndex(inst, p) == BankBase(inst.bank, p) + inst.n

RECURSIVE BitAnd(_, _)
BitAnd(x, y) ==
    IF x = 0 \/ y = 0 THEN 0
    ELSE IF x = -1 THEN y
    ELSE IF y = -1 THEN x
    ELSE 2 * BitAnd(x \div 2, y \div 2) + (x % 2) * (y % 2)

BitNot(x) == (-x) - 1
BitOr(x, y) == BitNot(BitAnd(BitNot(x), BitNot(y)))
BitXor(x, y) == BitAnd(BitOr(x, y), BitNot(BitAnd(x, y)))

RECURSIVE ShiftRightArith(_, _)
ShiftRightArith(x, n) == IF n = 0 THEN x ELSE ShiftRightArith(x \div 2, n - 1)

RECURSIVE CountOnes(_)
CountOnes(x) ==
    IF x = 0 THEN 0
    ELSE IF x < 0 THEN 64 - CountOnes(BitNot(x))
    ELSE (x % 2) + CountOnes(x \div 2)

Min(x, y) == IF x <= y THEN x ELSE y
Max(x, y) == IF x >= y THEN x ELSE y

\* Kinds whose results leave the value range of the model (or that the
\* Interpreter does not have); the specifications never draw them.
OutOfRangeKinds ==
    { "BitShiftLeft", "BitRotateLeft", "BitRotateRight", "BitReverse",
      "IntMulHighUnsigned", "BitSwap" }

\* The match arms of call_function that write a register (lines 95-165).
RegisterOp(inst, regs) ==
    LET r == inst.r
        v(k) == regs[r[k]]
        set(x) == [regs EXCEPT ![r[1]] = x]
    IN  CASE inst.kind = "IntAdd" -> set(v(2) + v(3))
          [] inst.kind = "IntSub" -> set(v(2) - v(3))
          [] inst.kind = "IntMul" -> set(v(2) * v(3))
          [] inst.kind = "IntMulHigh" ->
               set(IF v(2) # 0 /\ v(3) # 0 /\ ((v(2) < 0) # (v(3) < 0)) THEN -1 ELSE 0)
          [] inst.kind = "IntNeg" -> set(-v(2))
          [] inst.kind = "IntAbs" -> set(IF v(2) < 0 THEN -v(2) ELSE v(2))
          [] inst.kind = "IntInc" -> set(v(1) + 1)
          [] inst.kind = "IntDec" -> set(v(1) - 1)
          [] inst.kind = "IntMin" -> set(Min(v(2), v(3)))
          [] inst.kind = "IntMax" -> set(Max(v(2), v(3)))
          [] inst.kind = "BitOr" -> set(BitOr(v(2), v(3)))
          [] inst.kind = "BitAnd" -> set(BitAnd(v(2), v(3)))
          [] inst.kind = "BitXor" -> set(BitXor(v(2), v(3)))
          [] inst.kind = "BitNot" -> set(BitNot(v(2)))
          [] inst.kind = "BitShiftRight" -> set(ShiftRightArith(v(2), inst.n))
          [] inst.kind = "BitSelect" ->
               set(BitOr(BitAnd(v(3), v(2)), BitAnd(v(4), BitNot(v(2)))))
          [] inst.kind = "BitPopcnt" -> set(CountOnes(v(2)))
          [] OTHER -> regs

\* The comparisons with Gt and Lt on the registers read as u64.
BranchTaken_unsigned(inst, regs) ==
    LET a == regs[inst.r[1]]
        b == IF inst.kind = "BranchCmp" THEN regs[inst.r[2]] ELSE 0
        ult(x, y) == IF (x < 0) = (y < 0) THEN x < y ELSE y < 0
    IN  CASE inst.kind = "BranchZero" -> a = 0
          [] inst.kind = "BranchNonZero" -> a # 0
          [] inst.ck = "Eq" -> a = b
          [] inst.ck = "Neq" -> a # b
          [] inst.ck = "Gt" -> ult(b, a)
          [] OTHER -> ult(a, b)

\* The result of the comparison of a branch (lines 167-196).
BranchTaken(inst, regs) ==
    LET a == regs[inst.r[1]]
        b == IF inst.kind = "BranchCmp" THEN regs[inst.r[2]] ELSE 0
    IN  CASE inst.kind = "BranchZero" -> a = 0
          [] inst.kind = "BranchNonZero" -> a # 0
          [] inst.ck = "Eq" -> a = b
          [] inst.ck = "Neq" -> a # b
          [] inst.ck = "Gt" -> a > b
          [] OTHER -> a < b

Top == stack[Len(stack)]
TopFunction == functions[Top.idx + 1]
AtInstruction == phase = "running" /\ stack # <<>> /\ Top.ip < Len(TopFunction)
CurInst == TopFunction[Top.ip + 1]

SetTop(fr) == [stack EXCEPT ![Len(stack)] = fr]
Advance(fr) == [fr EXCEPT !.ip = @ + 1]

\* Compiler::compile with the Interpreter back-end.
Compile ==
    /\ phase = "new"
    /\ LET res == compile_with_frequencies(code, params)
       IN  /\ panic' = res.panic
           /\ phase' = IF res.panic = "none" THEN "ready" ELSE "panic"
           /\ funcs' = res.funcs
           /\ functions' = res.functions
           /\ runner' = InterpreterFinish(params.input_size, params.output_size,
                                          params.memory_size)
    /\ UNCHANGED <<code, params, memory, stack, steps>>
    /\ UNCHANGED jvars
    /\ UNCHANGED <<compiler, light>>

\* A step that zeroes the output region before it checks the length.
Step_zero_first ==
    /\ phase \in {"ready", "done"}
    /\ steps < MaxSteps
    /\ steps' = steps + 1
    /\ memory' = [ k \in 1..Len(memory) |->
                     IF k > Len(memory) - runner.output_size THEN 0 ELSE memory[k] ]
    /\ IF runner.memory_size + runner.output_size + runner.input_size <= Len(memory)
       THEN /\ stack' = << Frame(0) >>
            /\ phase' = "running"
            /\ panic' = panic
       ELSE /\ phase' = "panic"
            /\ panic' = "step: memory slice too small"
            /\ UNCHANGED stack
    /\ UNCHANGED <<code, params, funcs, functions, runner>>
    /\ UNCHANGED jvars
    /\ UNCHANGED <<compiler, light>>

\* Runner::step up to the call of the entry function (lines 65-71).
Step ==
    /\ phase \in {"ready", "done"}
    /\ steps < MaxSteps
    /\ steps' = steps + 1
    /\ IF runner.memory_size + runner.output_size + runner.input_size <= Len(memory)
       THEN /\ memory' = [ k \in 1..Len(memory) |->
                             IF k > Len(memory) - runner.output_size THEN 0 ELSE memory[k] ]
            /\ stack' = << Frame(0) >>
            /\ phase' = "running"
            /\ panic' = panic
       ELSE /\ phase' = "panic"
            /\ panic' = "step: memory slice too small"
            /\ UNCHANGED <<memory, stack>>
    /\ UNCHANGED <<code, params, funcs, functions, runner>>
    /\ UNCHANGED jvars
    /\ UNCHANGED <<compiler, light>>

\* The head of the loop of call_function while skip_count > 0 (lines 86-89).
SkipInstruction ==
    /\ AtInstruction
    /\ Top.skip_count > 0
    /\ stack' = SetTop([Advance(Top) EXCEPT !.skip_count = @ - 1])
    /\ UNCHANGED <<code, params, phase, panic, funcs, functions, runner, memory, steps>>
    /\ UNCHANGED jvars
    /\ UNCHANGED <<compiler, light>>

\* Call { idx } => self.call_function(memory, idx) (line 92).
ExecCall ==
    /\ AtInstruction
    /\ Top.skip_count = 0
    /\ CurInst.kind = "Call"
    /\ Len(stack) < MaxDepth
    /\ IF CurInst.n < Len(functions)
       THEN /\ stack' = Append(SetTop(Advance(Top)), Frame(CurInst.n))
            /\ UNCHANGED <<phase, panic>>
       ELSE /\ phase' = "panic"
            /\ panic' = "call_function: index out of bounds"
            /\ UNCHANGED stack
    /\ UNCHANGED <<code, params, funcs, functions, runner, memory, steps>>
    /\ UNCHANGED jvars
    /\ UNCHANGED <<compiler, light>>

\* Every other arm of the match (lines 93-205).
ExecInstruction ==
    /\ AtInstruction
    /\ Top.skip_count = 0
    /\ CurInst.kind \notin ({"Call"} \cup OutOfRangeKinds)
    /\ LET inst == CurInst
           idx == SliceIndex(inst, params)
           inBounds == idx < Len(memory)
       IN  CASE inst.kind \in BranchKinds ->
                  /\ stack' = SetTop([Advance(Top) EXCEPT !.skip_count =
                                        IF BranchTaken(inst, Top.regs) THEN inst.n ELSE @])
                  /\ UNCHANGED <<memory, phase, panic>>
             [] inst.kind = "MemLoad" ->
                  IF inBounds
                  THEN /\ stack' = SetTop([Advance(Top) EXCEPT
                                             !.regs[inst.r[1]] = memory[idx + 1]])
                       /\ UNCHANGED <<memory, phase, panic>>
                  ELSE /\ phase' = "panic"
                       /\ panic' = "memory: index out of bounds"
                       /\ UNCHANGED <<memory, stack>>
             [] inst.kind = "MemStore" ->
                  IF inBounds
                  THEN /\ memory' = [memory EXCEPT ![idx + 1] = Top.regs[inst.r[1]]]
                       /\ stack' = SetTop(Advance(Top))
                       /\ UNCHANGED <<phase, panic>>
                  ELSE /\ phase' = "panic"
                       /\ panic' = "memory: index out of bounds"
                       /\ UNCHANGED <<memory, stack>>
             [] OTHER ->
                  /\ stack' = SetTop([Advance(Top) EXCEPT !.regs = RegisterOp(inst, @)])
                  /\ UNCHANGED <<memory, phase, panic>>
    /\ UNCHANGED <<code, params, funcs, functions, runner, steps>>
    /\ UNCHANGED jvars
    /\ UNCHANGED <<compiler, light>>

\* The end of call_function: assert_eq!(skip_count, 0) and return (line 209).
ReturnFromFunction ==
    /\ phase = "running"
    /\ stack # <<>>
    /\ Top.ip = Len(TopFunction)
    /\ IF Top.skip_count = 0
       THEN /\ stack' = SubSeq(stack, 1, Len(stack) - 1)
            /\ phase' = IF Len(stack) = 1 THEN "done" ELSE "running"
            /\ panic' = panic
       ELSE /\ phase' = "panic"
            /\ panic' = "assert_eq!(skip_count, 0)"
            /\ UNCHANGED stack
    /\ UNCHANGED <<code, params, funcs, functions, runner, memory, steps>>
    /\ UNCHANGED jvars
    /\ UNCHANGED <<compiler, light>>

-----------------------------------------------------------------------------
(* jit/ir.rs: the IR builder.  Block names are 0-based as in the source;    *)
(* block b is blocks[b + 1].                                               *)

\* BlockName::INVALID (u32::MAX; INVALID + 1 wraps to 0 as in the source).
INVALID == -1

\* Var::new
NewVar(name) == [name |-> name, version |-> 0]

\* ir::Instruction; n is idx, addr or amount of the kind.
IrInst(kind, n, ck, dst, src) ==
    [kind |-> kind, n |-> n, ck |-> ck, dst |-> dst, src |-> src]

\* Instruction::jump and Instruction::return_
IrJump == IrInst("Jump", 0, "-", <<>>, <<>>)
IrReturn == IrInst("Return", 0, "-", <<>>, <<>>)

\* Block::default
DefaultBlock ==
    [predecessors |-> <<>>, params |-> <<>>, var_def_mask |-> {},
     instructions |-> <<>>, exit |-> INVALID, branch_exit |-> INVALID]

\* Emitter::new: the first block starts with an InitVar of every register.
EmitterNew ==
    [blocks |-> <<>>,
     instruction_count |-> 0,
     branch_targets |-> <<>>,
     cur_block |-> [DefaultBlock EXCEPT
                      !.instructions =
                          [ i \in 1..64 |-> IrInst("InitVar", 0, "-", << NewVar(i - 1) >>, <<>>) ],
                      !.var_def_mask = 0..63]]

next_block_name(em) == Len(em.blocks) + 1
cur_block_name(em) == Len(em.blocks)

finish_block(em) ==
    [em EXCEPT !.blocks = Append(@, em.cur_block), !.cur_block = DefaultBlock]

\* A finish_block_with_branch that splits the taken edge only: the block
\* falls through into the next block without a proxy.
finish_block_with_branch_unsplit(em, inst, offset) ==
    LET block_name == cur_block_name(em)
        e1 == finish_block([em EXCEPT !.cur_block.instructions = Append(@, inst),
                                      !.cur_block.exit = block_name + 2,
                                      !.cur_block.branch_exit = block_name + 1])
        e2 == finish_block([e1 EXCEPT !.cur_block.instructions = Append(@, IrJump),
                                      !.cur_block.predecessors = Append(@, block_name)])
    IN  [e2 EXCEPT
           !.cur_block.predecessors = Append(@, block_name),
           !.branch_targets =
               Append(@, [branch_proxy_block_name |-> block_name + 1,
                          target_instruction |-> em.instruction_count + offset])]

finish_block_with_branch(em, inst, offset) ==
    LET block_name == cur_block_name(em)
        fall_through_proxy_block_name == block_name + 1
        branch_proxy_block_name == block_name + 2
        next_name == block_name + 3
        e1 == finish_block([em EXCEPT !.cur_block.instructions = Append(@, inst),
                                      !.cur_block.exit = fall_through_proxy_block_name,
                                      !.cur_block.branch_exit = branch_proxy_block_name])
        e2 == finish_block([e1 EXCEPT !.cur_block.instructions = Append(@, IrJump),
                                      !.cur_block.predecessors = Append(@, block_name),
                                      !.cur_block.exit = next_name])
        e3 == finish_block([e2 EXCEPT !.cur_block.instructions = Append(@, IrJump),
                                      !.cur_block.predecessors = Append(@, block_name)])
    IN  [e3 EXCEPT
           !.cur_block.predecessors = Append(@, fall_through_proxy_block_name),
           !.branch_targets =
               Append(@, [branch_proxy_block_name |-> branch_proxy_block_name,
                          target_instruction |-> em.instruction_count + offset])]

finish_block_with_fall_through(em) ==
    LET block_name == cur_block_name(em)
        e1 == finish_block([em EXCEPT !.cur_block.instructions = Append(@, IrJump),
                                      !.cur_block.exit = next_block_name(em)])
    IN  [e1 EXCEPT !.cur_block.predecessors = Append(@, block_name)]

\* Vec::swap_remove of the element at 1-based position i.
swap_remove(s, i) ==
    [ k \in 1..(Len(s) - 1) |-> IF k = i THEN s[Len(s)] ELSE s[k] ]

\* The loop of create_branch_targets from position i on.
RECURSIVE create_branch_targets_from(_, _)
create_branch_targets_from(em, i) ==
    IF i > Len(em.branch_targets) THEN em
    ELSE IF em.branch_targets[i].target_instruction = em.instruction_count
    THEN LET proxy == em.branch_targets[i].branch_proxy_block_name
             e1 == [em EXCEPT !.branch_targets = swap_remove(@, i)]
             e2 == IF e1.cur_block.instructions # <<>>
                   THEN finish_block_with_fall_through(e1) ELSE e1
             e3 == [e2 EXCEPT !.cur_block.predecessors = Append(@, proxy),
                              !.blocks[proxy + 1].exit = cur_block_name(e2)]
         IN  create_branch_targets_from(e3, i)
    ELSE create_branch_targets_from(em, i + 1)

create_branch_targets(em) == create_branch_targets_from(em, 1)

prepare_emit(em) ==
    [create_branch_targets(em) EXCEPT !.instruction_count = @ + 1]

\* Pushes an instruction that defines the registers in `defs`
\* (def_var inserts into the mask of the current block).
push_instruction(em, inst) ==
    [em EXCEPT !.cur_block.instructions = Append(@, inst),
               !.cur_block.var_def_mask = @ \cup { inst.dst[k].name : k \in 1..Len(inst.dst) }]

\* The emit_* method for one emitter call x (after prepare_emit).
emit(em, x, addr) ==
    LET vars_of(rs) == [ k \in 1..Len(rs) |-> NewVar(rs[k]) ]
    IN  CASE x.kind = "Nop" -> em
          [] x.kind = "Call" ->
               push_instruction(em, IrInst("Call", x.n, "-", <<>>, <<>>))
          [] x.kind \in BranchKinds ->
               finish_block_with_branch(em, IrInst(x.kind, 0, x.ck, <<>>, vars_of(x.r)), x.n)
          [] x.kind = "MemLoad" ->
               push_instruction(em, IrInst("MemLoad", addr, "-", vars_of(x.r), <<>>))
          [] x.kind = "MemStore" ->
               push_instruction(em, IrInst("MemStore", addr, "-", <<>>, vars_of(x.r)))
          [] x.kind \in {"IntInc", "IntDec"} ->
               push_instruction(em, IrInst(x.kind, 0, "-", vars_of(x.r), vars_of(x.r)))
          [] OTHER ->
               push_instruction(em, IrInst(x.kind, x.n, "-", vars_of(<< x.r[1] >>),
                                           vars_of(Tail(x.r))))

-----------------------------------------------------------------------------
(* jit/ir.rs: Emitter::finalize, dominators (lines 142-185) *)

\* predecessors.find(|p| doms[p].is_valid()); INVALID when there is none.
first_valid_predecessor(preds, doms) ==
    LET valid == { k \in 1..Len(preds) : doms[preds[k] + 1] # INVALID }
    IN  IF valid = {} THEN INVALID
        ELSE preds[CHOOSE k \in valid : \A o \in valid : k <= o]

\* The two fingers walking up the dominator tree (lines 169-176).
RECURSIVE intersect(_, _, _)
intersect(finger1, finger2, doms) ==
    IF finger1 = finger2 THEN finger1
    ELSE IF finger1 > finger2 THEN intersect(doms[finger1 + 1], finger2, doms)
    ELSE intersect(finger1, doms[finger2 + 1], doms)

\* The inner loop over the predecessors other than the initial one.
RECURSIVE fold_predecessors(_, _, _, _, _)
fold_predecessors(preds, k, initial_idom, new_idom, doms) ==
    IF k > Len(preds) THEN new_idom
    ELSE IF preds[k] # initial_idom /\ doms[preds[k] + 1] # INVALID
    THEN fold_predecessors(preds, k + 1, initial_idom,
                           intersect(preds[k], new_idom, doms), doms)
    ELSE fold_predecessors(preds, k + 1, initial_idom, new_idom, doms)

\* One pass of the for loop over blocks b = 1 ..; `changed` is overwritten
\* by every block, as in the source.
RECURSIVE dominator_pass(_, _, _, _)
dominator_pass(blocks, b, doms, changed) ==
    IF b >= Len(blocks) THEN [doms |-> doms, changed |-> changed]
    ELSE LET preds == blocks[b + 1].predecessors
             initial_idom == first_valid_predecessor(preds, doms)
             new_idom == fold_predecessors(preds, 1, initial_idom, initial_idom, doms)
         IN  dominator_pass(blocks, b + 1, [doms EXCEPT ![b + 1] = new_idom],
                            doms[b + 1] # new_idom)

RECURSIVE dominator_loop(_, _)
dominator_loop(blocks, doms) ==
    LET pass == dominator_pass(blocks, 1, doms, FALSE)
    IN  IF pass.changed THEN dominator_loop(blocks, pass.doms) ELSE pass.doms

\* Dominators that name block 0 for every block.
dominators_entry(blocks) == [ b \in 1..Len(blocks) |-> 0 ]

\* doms[b + 1] is the immediate dominator of block b.
dominators(blocks) ==
    dominator_loop(blocks, [ b \in 1..Len(blocks) |-> IF b = 1 THEN 0 ELSE INVALID ])

(* Dominance frontiers (lines 187-207) *)

RECURSIVE frontier_walk(_, _, _, _)
frontier_walk(frontiers, runner_block, b, doms) ==
    IF runner_block = doms[b + 1] THEN frontiers
    ELSE LET present == \E k \in 1..Len(frontiers[runner_block + 1]) :
                            frontiers[runner_block + 1][k] = b
         IN  frontier_walk(IF present THEN frontiers
                           ELSE [frontiers EXCEPT ![runner_block + 1] = Append(@, b)],
                           doms[runner_block + 1], b, doms)

RECURSIVE frontier_predecessors(_, _, _, _, _)
frontier_predecessors(frontiers, preds, k, b, doms) ==
    IF k > Len(preds) THEN frontiers
    ELSE frontier_predecessors(frontier_walk(frontiers, preds[k], b, doms),
                               preds, k + 1, b, doms)

RECURSIVE frontier_blocks(_, _, _, _)
frontier_blocks(frontiers, b, blocks, doms) ==
    IF b >= Len(blocks) THEN frontiers
    ELSE IF Len(blocks[b + 1].predecessors) > 1
    THEN frontier_blocks(frontier_predecessors(frontiers, blocks[b + 1].predecessors,
                                               1, b, doms),
                         b + 1, blocks, doms)
    ELSE frontier_blocks(frontiers, b + 1, blocks, doms)

dominance_frontiers(blocks, doms) ==
    frontier_blocks([ b \in 1..Len(blocks) |-> <<>> ], 0, blocks, doms)

(* Block parameters (lines 209-248) *)

\* The state of the loops for one variable: block_stack, the bit vectors
\* processed_blocks and pushed_blocks as sets, and received, the blocks on
\* whose params the variable has been pushed, one entry per push.
RECURSIVE scan_frontier(_, _, _)
scan_frontier(frontier, k, wl) ==
    IF k > Len(frontier) THEN wl
    ELSE IF frontier[k] \notin wl.processed_blocks
    THEN scan_frontier(frontier, k + 1,
                       [block_stack |-> IF frontier[k] \notin wl.pushed_blocks
                                        THEN Append(wl.block_stack, frontier[k])
                                        ELSE wl.block_stack,
                        processed_blocks |-> wl.processed_blocks \cup {frontier[k]},
                        pushed_blocks |-> wl.pushed_blocks \cup {frontier[k]},
                        received |-> Append(wl.received, frontier[k])])
    ELSE scan_frontier(frontier, k + 1, wl)

\* The while-let loop for one variable: the pushes of the parameter.
RECURSIVE param_worklist(_, _)
param_worklist(wl, frontiers) ==
    IF wl.block_stack = <<>> THEN wl.received
    ELSE LET b == wl.block_stack[Len(wl.block_stack)]
         IN  param_worklist(
                 scan_frontier(frontiers[b + 1], 1,
                               [wl EXCEPT !.block_stack = SubSeq(@, 1, Len(@) - 1)]),
                 frontiers)

\* Ascending sequence of the elements of a set of naturals below n.
Ascending(S, n) == SelectSeq([ k \in 1..n |-> k - 1 ], LAMBDA x : x \in S)

\* The frontier of the defining blocks only, without the worklist.
param_blocks_direct(v, blocks, frontiers) ==
    Ascending({ f \in 0..(Len(blocks) - 1) :
                  \E b \in 0..(Len(blocks) - 1) :
                      /\ v \in blocks[b + 1].var_def_mask
                      /\ \E k \in 1..Len(frontiers[b + 1]) : frontiers[b + 1][k] = f },
              Len(blocks))

\* The blocks that receive variable v as a parameter, one entry per push.
param_blocks(v, blocks, frontiers) ==
    LET defs == { b \in 0..(Len(blocks) - 1) : v \in blocks[b + 1].var_def_mask }
    IN  param_worklist([block_stack |-> Ascending(defs, Len(blocks)),
                        processed_blocks |-> {},
                        pushed_blocks |-> defs,
                        received |-> <<>>], frontiers)

\* params of block b after the loop over v = 0..upto: one Var per push.
RECURSIVE pushed_params(_, _, _)
pushed_params(receives, b, upto) ==
    IF upto < 0 THEN <<>>
    ELSE pushed_params(receives, b, upto - 1)
         \o [ k \in 1..Len(SelectSeq(receives[upto], LAMBDA f : f = b)) |-> NewVar(upto) ]

\* The blocks with their parameters pushed, in the order of the loop over v.
insert_block_params(blocks, frontiers) ==
    LET receives == [ v \in 0..63 |-> param_blocks(v, blocks, frontiers) ]
    IN  [ b \in 1..Len(blocks) |->
            [blocks[b] EXCEPT
               !.params = pushed_params(receives, b - 1, 63),
               !.var_def_mask = @ \cup { v \in 0..63 :
                                           \E k \in 1..Len(receives[v]) :
                                               receives[v][k] = b - 1 }] ]

(* Renaming and live ranges (lines 250-321).  The state of the walk:       *)
(* [blocks, var_stacks, version_counters, live_ranges].                    *)

\* The closure gen_name: a fresh version of the variable, live from
\* cur_instruction on; yields the state, the version is the old counter.
gen_name(st, name, cur_instruction) ==
    [st EXCEPT
       !.var_stacks[name] = Append(@, [version |-> st.version_counters[name],
                                         start |-> cur_instruction, end |-> 0]),
       !.version_counters[name] = @ + 1]

\* for var in &mut block.params { gen_name(var, .., instructions_start) }
RECURSIVE rename_params(_, _, _, _)
rename_params(st, b, k, instructions_start) ==
    IF k > Len(st.blocks[b + 1].params) THEN st
    ELSE LET name == st.blocks[b + 1].params[k].name
             named == [st EXCEPT !.blocks[b + 1].params[k].version =
                                     st.version_counters[name]]
         IN  rename_params(gen_name(named, name, instructions_start), b, k + 1,
                           instructions_start)

\* for src in inst.src_iter_mut(): extend the live range on top of the stack
\* of the name and take its version.
RECURSIVE rename_sources(_, _, _, _, _)
rename_sources(st, b, k, s, i) ==
    IF s > Len(st.blocks[b + 1].instructions[k].src) \/ st.panic # "none" THEN st
    ELSE LET name == st.blocks[b + 1].instructions[k].src[s].name
             top == Len(st.var_stacks[name])
         IN  IF top = 0 THEN [st EXCEPT !.panic = "finalize: last_mut().unwrap()"]
             ELSE rename_sources(
                      [st EXCEPT
                         !.var_stacks[name][top].end = i + 1,
                         !.blocks[b + 1].instructions[k].src[s].version =
                             st.var_stacks[name][top].version],
                      b, k, s + 1, i)

\* for dst in inst.dst_iter_mut() { gen_name(dst, .., i) }
RECURSIVE rename_destinations(_, _, _, _, _)
rename_destinations(st, b, k, d, i) ==
    IF d > Len(st.blocks[b + 1].instructions[k].dst) \/ st.panic # "none" THEN st
    ELSE LET name == st.blocks[b + 1].instructions[k].dst[d].name
             named == [st EXCEPT !.blocks[b + 1].instructions[k].dst[d].version =
                                     st.version_counters[name]]
         IN  rename_destinations(gen_name(named, name, i), b, k, d + 1, i)

\* The loop over the instructions lo..hi of block b, in order (the range
\* is halved so that the evaluation stays shallow).
RECURSIVE rename_instructions(_, _, _, _, _)
rename_instructions(st, b, lo, hi, instructions_start) ==
    IF lo > hi \/ st.panic # "none" THEN st
    ELSE IF lo = hi
    THEN LET i == instructions_start + lo - 1
         IN  rename_destinations(rename_sources(st, b, lo, 1, i), b, lo, 1, i)
    ELSE LET mid == (lo + hi) \div 2
         IN  rename_instructions(rename_instructions(st, b, lo, mid, instructions_start),
                                 b, mid + 1, hi, instructions_start)

\* Number of instructions in the blocks before block b.
RECURSIVE instructions_start(_, _)
instructions_start(blocks, b) ==
    IF b = 0 THEN 0
    ELSE instructions_start(blocks, b - 1) + Len(blocks[b].instructions)

\* The variables popped at the end of a block: the destinations of the
\* instructions in reverse order, then the parameters.
RECURSIVE reversed_destinations(_, _, _)
reversed_destinations(instructions, lo, hi) ==
    IF lo > hi THEN <<>>
    ELSE IF lo = hi THEN instructions[lo].dst
    ELSE LET mid == (lo + hi) \div 2
         IN  reversed_destinations(instructions, mid + 1, hi)
             \o reversed_destinations(instructions, lo, mid)

RECURSIVE pop_variables(_, _, _, _)
pop_variables(st, popped, lo, hi) ==
    IF lo > hi \/ st.panic # "none" THEN st
    ELSE IF lo = hi
    THEN LET name == popped[lo].name
             top == st.var_stacks[name][Len(st.var_stacks[name])]
         IN  IF st.var_stacks[name] = <<>>
             THEN [st EXCEPT !.panic = "finalize: pop().unwrap()"]
             ELSE [st EXCEPT
                     !.var_stacks[name] = SubSeq(@, 1, Len(@) - 1),
                     !.live_ranges = Append(@, [var |-> popped[lo], start |-> top.start,
                                                end |-> top.end])]
    ELSE LET mid == (lo + hi) \div 2
         IN  pop_variables(pop_variables(st, popped, lo, mid), popped, mid + 1, hi)

\* The child of b in the dominator tree after last_child, or INVALID.
next_child(doms, b, last_child) ==
    LET later == { c \in (1 + last_child)..(Len(doms) - 1) : doms[c + 1] = b }
    IN  IF later = {} THEN INVALID ELSE CHOOSE c \in later : \A o \in later : c <= o

\* while let Some((b, last_child)) = block_stack.pop()
RECURSIVE rename_walk(_, _, _)
rename_walk(st, block_stack, doms) ==
    IF block_stack = <<>> \/ st.panic # "none" THEN st
    ELSE LET b == block_stack[Len(block_stack)][1]
             last_child == block_stack[Len(block_stack)][2]
             rest == SubSeq(block_stack, 1, Len(block_stack) - 1)
             start == instructions_start(st.blocks, b)
             visited == IF b = last_child
                        THEN rename_instructions(rename_params(st, b, 1, start), b, 1,
                                                 Len(st.blocks[b + 1].instructions), start)
                        ELSE st
             child == next_child(doms, b, last_child)
             popped == reversed_destinations(visited.blocks[b + 1].instructions, 1,
                                             Len(visited.blocks[b + 1].instructions))
                       \o visited.blocks[b + 1].params
         IN  IF child # INVALID
             THEN rename_walk(visited, rest \o << <<b, child>>, <<child, child>> >>, doms)
             ELSE rename_walk(pop_variables(visited, popped, 1, Len(popped)), rest, doms)

rename(blocks, doms) ==
    rename_walk([blocks |-> blocks,
                 var_stacks |-> [ v \in 0..63 |-> <<>> ],
                 version_counters |-> [ v \in 0..63 |-> 0 ],
                 live_ranges |-> <<>>,
                 panic |-> "none"],
                << <<0, 0>> >>, doms)

(* Sorting and truncation (lines 323-327).  Ranges of equal key keep their  *)
(* order here; the ranges that are never read have the greatest key.       *)

RECURSIVE sorted_by_start(_, _, _)
sorted_by_start(ranges, p, last) ==
    IF p > last THEN <<>>
    ELSE IF p = last THEN SelectSeq(ranges, LAMBDA r : r.start = p)
    ELSE LET mid == (p + last) \div 2
         IN  sorted_by_start(ranges, p, mid) \o sorted_by_start(ranges, mid + 1, last)

sort_and_truncate(ranges, instruction_total) ==
    LET read == SelectSeq(ranges, LAMBDA r : r.end # 0)
    IN  IF read = <<>> THEN ranges
        ELSE sorted_by_start(read, 0, instruction_total)

-----------------------------------------------------------------------------
(* jit/regalloc.rs and the Target of arch/x86_64.rs.  The allocator state   *)
(* `ra` joins State, the RegAllocInstruction under construction (inst) and *)
(* the locals of RegAllocations::run; an Option is a sequence of length    *)
(* 0 or 1; ra.panic names the unwrap that failed, if any.                  *)

\* Target::REGISTER_COUNT = REGISTERS.len()
REGISTER_COUNT == 12

\* The length of State::active_stack, 64 - Target::REGISTER_COUNT.
STACK_SLOTS == 64 - REGISTER_COUNT

\* Target::supports_mem_operand
supports_mem_operand(kind) ==
    kind \in { "BranchCmp", "IntSub", "IntMul", "IntMulHigh", "IntMulHighUnsigned",
               "IntNeg", "BitOr", "BitAnd", "BitXor", "BitNot", "BitShiftLeft",
               "BitShiftRight", "BitRotateLeft", "BitRotateRight", "BitSelect" }

\* PhysicalVar::new_register and PhysicalVar::new_stack
new_register(r) == [is_stack |-> FALSE, idx |-> r]
new_stack(slot) == [is_stack |-> TRUE, idx |-> slot]

RegAllocAction(op, x, y) == [op |-> op, x |-> x, y |-> y]

\* State::default and the locals of run; ret holds the value returned by
\* the last call of alloc_reg, alloc_stack or unspill.
StateDefault(live_ranges) ==
    [live_vars |-> <<>>,
     active_reg |-> [ r \in 0..(REGISTER_COUNT - 1) |-> <<>> ],
     active_stack |-> [ k \in 0..(STACK_SLOTS - 1) |-> <<>> ],
     stack_size |-> 0,
     live_ranges |-> live_ranges,
     last_block |-> INVALID,
     instructions |-> <<>>,
     used_regs_mask |-> {},
     inst |-> <<>>,
     ret |-> INVALID,
     panic |-> "none"]

\* live_vars is a sequence of [var, phys] with at most one entry per var.
live_vars_get(ra, var) ==
    SelectSeq(ra.live_vars, LAMBDA e : e.var = var)

live_vars_insert(live_vars, var, phys) ==
    Append(SelectSeq(live_vars, LAMBDA e : e.var # var), [var |-> var, phys |-> phys])

live_vars_remove(live_vars, dead) ==
    SelectSeq(live_vars, LAMBDA e : e.var \notin dead)

\* State::clean_dead_vars
clean_dead_vars(ra, i) ==
    LET dying(a) == a # <<>> /\ a[1].end = i
        dead == { ra.active_reg[r][1].var :
                    r \in { q \in DOMAIN ra.active_reg : dying(ra.active_reg[q]) } }
                \cup { ra.active_stack[k][1].var :
                    k \in { q \in DOMAIN ra.active_stack : dying(ra.active_stack[q]) } }
    IN  [ra EXCEPT
           !.active_reg = [ r \in DOMAIN @ |-> IF dying(@[r]) THEN <<>> ELSE @[r] ],
           !.active_stack = [ k \in DOMAIN @ |-> IF dying(@[k]) THEN <<>> ELSE @[k] ],
           !.live_vars = live_vars_remove(@, dead)]

\* max_by_key(|(_, a)| a.end) over the registers in `candidates`: the last
\* of the greatest; INVALID when there is no candidate.
max_end_register(ra, candidates) ==
    IF candidates = {} THEN INVALID
    ELSE CHOOSE r \in candidates :
           \A o \in candidates :
              \/ ra.active_reg[o][1].end < ra.active_reg[r][1].end
              \/ ra.active_reg[o][1].end = ra.active_reg[r][1].end /\ o <= r

\* State::longest_active_reg
longest_active_reg(ra) ==
    max_end_register(ra, { r \in DOMAIN ra.active_reg : ra.active_reg[r] # <<>> })

\* position(Option::is_none) on a register file or on the stack slots.
first_none(active) ==
    IF \A k \in DOMAIN active : active[k] # <<>> THEN INVALID
    ELSE CHOOSE k \in DOMAIN active :
           active[k] = <<>> /\ \A o \in DOMAIN active : active[o] = <<>> => k <= o

\* State::alloc_stack when position(..) is stack_idx
alloc_stack_at(ra, range, stack_idx) ==
    IF stack_idx = INVALID
    THEN [ra EXCEPT !.panic = "alloc_stack: position(Option::is_none).unwrap()"]
    ELSE [ra EXCEPT
            !.stack_size = IF @ >= stack_idx + 1 THEN @ ELSE stack_idx + 1,
            !.live_vars = live_vars_insert(@, range.var, new_stack(stack_idx)),
            !.active_stack[stack_idx] = << range >>,
            !.ret = stack_idx]

\* State::alloc_stack
alloc_stack(ra, range) ==
    IF ra.panic # "none" THEN ra
    ELSE alloc_stack_at(ra, range, first_none(ra.active_stack))

\* State::reg_to_stack after alloc_stack returned into `stored`
reg_to_stack(stored, reg) ==
    IF stored.panic # "none" THEN stored
    ELSE [stored EXCEPT
            !.inst.actions = Append(@, RegAllocAction("RegToStack", stored.ret, reg))]

\* State::spill_reg
spill_reg(ra, reg) ==
    IF ra.panic # "none" THEN ra
    ELSE IF ra.active_reg[reg] = <<>>
    THEN [ra EXCEPT !.panic = "spill_reg: take().unwrap()"]
    ELSE reg_to_stack(alloc_stack([ra EXCEPT !.active_reg[reg] = <<>>],
                                  ra.active_reg[reg][1]),
                      reg)

\* State::alloc_reg when position(..) is r; ret is INVALID for None.
alloc_reg_at(ra, range, r) ==
    IF r = INVALID THEN [ra EXCEPT !.ret = INVALID]
    ELSE [ra EXCEPT !.active_reg[r] = << range >>,
                    !.live_vars = live_vars_insert(@, range.var, new_register(r)),
                    !.ret = r]

\* State::alloc_reg
alloc_reg(ra, range) ==
    IF ra.panic # "none" THEN ra
    ELSE alloc_reg_at(ra, range, first_none(ra.active_reg))

\* State::use_reg
use_reg(ra, reg, range) ==
    IF ra.panic # "none" THEN ra
    ELSE [ra EXCEPT !.live_vars = live_vars_insert(@, range.var, new_register(reg)),
                    !.active_reg[reg] = << range >>]

\* State::stack_to_reg and the release of the slot (lines 165-168).
stack_to_reg(ra, reg, stack_idx) ==
    IF ra.panic # "none" THEN ra
    ELSE [ra EXCEPT
            !.inst.actions = Append(@, RegAllocAction("StackToReg", reg, stack_idx)),
            !.active_stack[stack_idx] = <<>>,
            !.ret = reg]

\* unspill choosing among all the active registers.
unspill_allocated_any(tried, stack_idx, range) ==
    IF tried.ret # INVALID THEN stack_to_reg(tried, tried.ret, stack_idx)
    ELSE stack_to_reg(use_reg(spill_reg(tried, longest_active_reg(tried)),
                              longest_active_reg(tried), range),
                      longest_active_reg(tried), stack_idx)

\* The else branch of unspill: reg is the register chosen by max_by_key.
unspill_evicting(ra, stack_idx, range, reg) ==
    IF reg = INVALID
    THEN [ra EXCEPT !.panic = "unspill: max_by_key(..).unwrap()"]
    ELSE stack_to_reg(use_reg(spill_reg(ra, reg), reg, range), reg, stack_idx)

\* unspill after alloc_reg returned into `tried`
unspill_allocated(tried, stack_idx, range) ==
    IF tried.ret # INVALID THEN stack_to_reg(tried, tried.ret, stack_idx)
    ELSE unspill_evicting(
           tried, stack_idx, range,
           max_end_register(tried,
              { r \in DOMAIN tried.active_reg :
                  /\ tried.active_reg[r] # <<>>
                  /\ \A k \in 1..Len(tried.inst.defs) : tried.inst.defs[k] # new_register(r)
                  /\ \A k \in 1..Len(tried.inst.uses) : tried.inst.uses[k] # new_register(r) }))

\* State::unspill
unspill(ra, stack_idx) ==
    IF ra.panic # "none" THEN ra
    ELSE IF ra.active_stack[stack_idx] = <<>>
    THEN [ra EXCEPT !.panic = "unspill: active_stack[stack_idx].unwrap()"]
    ELSE unspill_allocated(alloc_reg(ra, ra.active_stack[stack_idx][1]), stack_idx,
                           ra.active_stack[stack_idx][1])

\* The instructions of all blocks in order, each with its block
\* (the iterator of run, lines 215-225).
RECURSIVE flat_instructions(_, _)
flat_instructions(blocks, b) ==
    IF b >= Len(blocks) THEN <<>>
    ELSE [ k \in 1..Len(blocks[b + 1].instructions) |->
             [b |-> b, inst |-> blocks[b + 1].instructions[k]] ]
         \o flat_instructions(blocks, b + 1)

\* The else branch taking the register without spilling its variable.
admit_spilling_over(ra, new_range, r) ==
    IF r = INVALID THEN [ra EXCEPT !.panic = "run: longest_active_reg().unwrap()"]
    ELSE use_reg(ra, r, new_range)

\* The else branch of lines 241-251: r is longest_active_reg().
admit_spilling(ra, new_range, r) ==
    IF r = INVALID THEN [ra EXCEPT !.panic = "run: longest_active_reg().unwrap()"]
    ELSE IF ra.active_reg[r][1].end > new_range.end
    THEN use_reg(spill_reg(ra, r), r, new_range)
    ELSE alloc_stack(ra, new_range)

\* Lines 239-251 after alloc_reg returned into `tried`
admit_allocated(tried, new_range) ==
    IF tried.ret # INVALID THEN [tried EXCEPT !.used_regs_mask = @ \cup {tried.ret}]
    ELSE admit_spilling(tried, new_range, longest_active_reg(tried))

\* The loop that admits the live ranges starting at i (lines 238-252).
RECURSIVE admit_ranges(_, _)
admit_ranges(ra, i) ==
    IF ra.panic # "none" \/ ra.live_ranges = <<>> THEN ra
    ELSE IF Head(ra.live_ranges).start # i THEN ra
    ELSE admit_ranges(
           admit_allocated(alloc_reg([ra EXCEPT !.live_ranges = Tail(@)],
                                     Head(ra.live_ranges)),
                           Head(ra.live_ranges)),
           i)

\* Lines 290-294
push_operand(ra, is_dst, phys) ==
    IF ra.panic # "none" THEN ra
    ELSE IF is_dst THEN [ra EXCEPT !.inst.defs = Append(@, phys)]
    ELSE [ra EXCEPT !.inst.uses = Append(@, phys)]

\* Lines 286-294 after unspill returned into `moved`
push_unspilled(moved, is_dst) ==
    push_operand(moved, is_dst, new_register(moved.ret))

\* Lines 281-294 for an operand found in live_vars at phys
place_operand(ra, is_dst, phys) ==
    IF /\ phys.is_stack
       /\ \/ ~supports_mem_operand(ra.inst.kind)
          \/ \E j \in 1..Len(ra.inst.defs) : ra.inst.defs[j].is_stack
          \/ \E j \in 1..Len(ra.inst.uses) : ra.inst.uses[j].is_stack
    THEN push_unspilled(unspill(ra, phys.idx), is_dst)
    ELSE push_operand(ra, is_dst, phys)

\* Lines 276-279 with the result of live_vars.get in `found`; inst.dead
\* records the `continue 'func_inst`.
resolve_operand(ra, is_dst, found) ==
    IF found = <<>> THEN [ra EXCEPT !.inst.dead = TRUE]
    ELSE place_operand(ra, is_dst, found[1].phys)

\* The loop over the operands of one instruction (lines 269-295)
RECURSIVE resolve_operands(_, _, _)
resolve_operands(ra, operands, k) ==
    IF k > Len(operands) \/ ra.panic # "none" \/ ra.inst.dead THEN ra
    ELSE resolve_operands(
           resolve_operand(ra, operands[k].is_dst, live_vars_get(ra, operands[k].virt)),
           operands, k + 1)

\* Lines 229-234
new_inst(ra, func_inst) ==
    [ra EXCEPT !.inst = [kind |-> func_inst.kind, n |-> func_inst.n,
                         ck |-> func_inst.ck, actions |-> <<>>,
                         defs |-> <<>>, uses |-> <<>>, dead |-> FALSE]]

\* Lines 259-265
branch_exit_action(ra, blocks, b) ==
    IF ra.inst.kind \in BranchKinds
    THEN [ra EXCEPT
            !.inst.actions =
                Append(@, RegAllocAction("BranchExit",
                                         blocks[blocks[b + 1].branch_exit + 1].exit, 0))]
    ELSE ra

\* dst_iter chained with src_iter (lines 269-272)
operands_of(func_inst) ==
    [ k \in 1..Len(func_inst.dst) |-> [is_dst |-> TRUE, virt |-> func_inst.dst[k]] ]
    \o [ k \in 1..Len(func_inst.src) |-> [is_dst |-> FALSE, virt |-> func_inst.src[k]] ]

\* Lines 297-304 with the operands resolved in `resolved`
push_inst(resolved, b) ==
    IF resolved.panic # "none" \/ resolved.inst.dead THEN resolved
    ELSE [resolved EXCEPT
            !.instructions =
                Append(@, [resolved.inst EXCEPT
                             !.actions =
                                 IF b # resolved.last_block
                                 THEN @ \o [ k \in 1..(b - resolved.last_block) |->
                                               RegAllocAction("BlockStart",
                                                              resolved.last_block + k, 0) ]
                                 ELSE @]),
            !.last_block = b]

\* Lines 257-304 with the live ranges admitted in `admitted`
run_admitted(admitted, blocks, b, func_inst) ==
    IF admitted.panic # "none" \/ func_inst.kind = "Jump" THEN admitted
    ELSE push_inst(resolve_operands(branch_exit_action(admitted, blocks, b),
                                    operands_of(func_inst), 1),
                   b)

\* One iteration of the loop of run for instruction i of block b.
run_instruction(ra, blocks, b, func_inst, i) ==
    run_admitted(admit_ranges(clean_dead_vars(new_inst(ra, func_inst), i), i),
                 blocks, b, func_inst)

\* The loop of run over the instructions lo..hi of flat, in order (the
\* range is halved so that the evaluation stays shallow).
RECURSIVE run_from(_, _, _, _, _)
run_from(ra, blocks, flat, lo, hi) ==
    IF lo > hi \/ ra.panic # "none" THEN ra
    ELSE IF lo = hi
    THEN run_instruction(ra, blocks, flat[lo].b, flat[lo].inst, lo - 1)
    ELSE run_from(run_from(ra, blocks, flat, lo, (lo + hi) \div 2),
                  blocks, flat, (lo + hi) \div 2 + 1, hi)

\* The reg_allocs left by run in the state `ra`, or the panic.
reg_allocs(ra) ==
    [instructions |-> ra.instructions,
     used_regs_mask |-> ra.used_regs_mask,
     stack_size |-> ra.stack_size,
     panic |-> ra.panic]

run_flat(blocks, live_ranges, flat) ==
    reg_allocs(run_from(StateDefault(live_ranges), blocks, flat, 1, Len(flat)))

\* RegAllocations::run
RegAllocations_run(blocks, live_ranges) ==
    run_flat(blocks, live_ranges, flat_instructions(blocks, 0))

-----------------------------------------------------------------------------
(* jit/ir.rs: Emitter::finalize, and the emitter calls of one function.    *)

\* Lines 323-329 with the result of the renaming in `renamed`
finalize_renamed(renamed) ==
    IF renamed.panic # "none"
    THEN [instructions |-> <<>>, used_regs_mask |-> {}, stack_size |-> 0,
          panic |-> renamed.panic]
    ELSE RegAllocations_run(
           renamed.blocks,
           sort_and_truncate(renamed.live_ranges,
                             instructions_start(renamed.blocks, Len(renamed.blocks))))

\* Lines 187-329 with the dominators in `doms`
finalize_dominated(blocks, doms) ==
    finalize_renamed(
        rename(insert_block_params(blocks, dominance_frontiers(blocks, doms)), doms))

\* Lines 142-329 with the blocks of the function complete
finalize_blocks(blocks) == finalize_dominated(blocks, dominators(blocks))

\* Lines 139-140
push_return(em) ==
    finish_block([em EXCEPT !.cur_block.instructions = Append(@, IrReturn)])

finalize(em) == finalize_blocks(push_return(create_branch_targets(em)).blocks)

\* The loop of compile.rs over the words of one function (lines 117-252)
\* as seen by the Emitter: prepare_emit, then the emit_* call of the word;
\* word lo is emitted when lo - 1 words have been (the range is halved so
\* that the evaluation stays shallow).
RECURSIVE emit_function(_, _, _, _, _)
emit_function(em, insts, lo, hi, p) ==
    IF lo > hi \/ em.instruction_count # lo - 1 THEN em
    ELSE IF lo = hi
    THEN emit(prepare_emit(em), insts[lo], SliceIndex(insts[lo], p))
    ELSE LET mid == (lo + hi) \div 2
         IN  emit_function(emit_function(em, insts, lo, mid, p), insts, mid + 1, hi, p)

\* begin_function, the emitter calls of the words and finalize for one
\* function (compile.rs lines 114-253 with the Jit as generator).
jit_function(insts, p) ==
    finalize(emit_function(EmitterNew, insts, 1, Len(insts), p))

(* light_jit/ir.rs: the Emitter of the light Jit up to finalize.  Its      *)
(* blocks carry terminator_idx and its proxies hold a FallThrough.          *)

IrConst == IrInst("Const", 0, "-", <<>>, <<>>)
IrFallThrough == IrInst("FallThrough", 0, "-", <<>>, <<>>)

\* usize::MAX, the terminator_idx of Block::default
NO_TERMINATOR == 0 - 1

LightDefaultBlock ==
    [predecessors |-> <<>>, params |-> <<>>, var_def_mask |-> {},
     instructions |-> <<>>, terminator_idx |-> NO_TERMINATOR,
     exit |-> INVALID, branch_exit |-> INVALID]

\* Emitter::new: the first block starts with a Const 0 for every register.
LightEmitterNew ==
    [blocks |-> <<>>,
     instruction_count |-> 0,
     branch_targets |-> <<>>,
     cur_block |-> [LightDefaultBlock EXCEPT
                      !.instructions =
                          [ i \in 1..64 |-> [IrConst EXCEPT !.dst = << NewVar(i - 1) >>] ],
                      !.var_def_mask = 0..63]]

light_finish_block(em) ==
    [em EXCEPT !.blocks = Append(@, em.cur_block), !.cur_block = LightDefaultBlock]

\* finish_block_with_branch (lines 51-98): the target is counted from
\* instruction_count - 1.
light_finish_block_with_branch(em, inst, offset) ==
    LET block_name == cur_block_name(em)
        fall_through_proxy_block_name == block_name + 1
        branch_proxy_block_name == block_name + 2
        next_name == block_name + 3
        e1 == light_finish_block(
                  [em EXCEPT !.cur_block.terminator_idx = Len(em.cur_block.instructions),
                             !.cur_block.instructions = Append(@, inst),
                             !.cur_block.exit = fall_through_proxy_block_name,
                             !.cur_block.branch_exit = branch_proxy_block_name])
        fall_through_proxy_block ==
            [LightDefaultBlock EXCEPT !.predecessors = << block_name >>,
                                      !.terminator_idx = 0,
                                      !.instructions = << IrFallThrough >>,
                                      !.exit = next_name]
        branch_proxy_block ==
            [LightDefaultBlock EXCEPT !.predecessors = << block_name >>,
                                      !.terminator_idx = 0,
                                      !.instructions = << IrFallThrough >>]
    IN  [e1 EXCEPT
           !.cur_block.predecessors = Append(@, fall_through_proxy_block_name),
           !.blocks = @ \o << fall_through_proxy_block, branch_proxy_block >>,
           !.branch_targets =
               Append(@, [branch_proxy_block_name |-> branch_proxy_block_name,
                          target_instruction |-> em.instruction_count - 1 + offset])]

light_finish_block_with_fall_through(em) ==
    LET block_name == cur_block_name(em)
        e1 == light_finish_block(
                  [em EXCEPT !.cur_block.terminator_idx = Len(em.cur_block.instructions),
                             !.cur_block.instructions = Append(@, IrFallThrough),
                             !.cur_block.exit = next_block_name(em)])
    IN  [e1 EXCEPT !.cur_block.predecessors = Append(@, block_name)]

\* The loop of prepare_emit from position i on (lines 120-137).
RECURSIVE light_branch_targets_from(_, _)
light_branch_targets_from(em, i) ==
    IF i > Len(em.branch_targets) THEN em
    ELSE IF em.branch_targets[i].target_instruction = em.instruction_count
    THEN LET proxy == em.branch_targets[i].branch_proxy_block_name
             e1 == [em EXCEPT !.branch_targets = swap_remove(@, i)]
             e2 == IF e1.cur_block.instructions # <<>>
                   THEN light_finish_block_with_fall_through(e1) ELSE e1
             e3 == [e2 EXCEPT !.cur_block.predecessors = Append(@, proxy),
                              !.blocks[proxy + 1].exit = cur_block_name(e2)]
         IN  light_branch_targets_from(e3, i)
    ELSE light_branch_targets_from(em, i + 1)

light_prepare_emit(em) ==
    [light_branch_targets_from(em, 1) EXCEPT !.instruction_count = @ + 1]

\* The emit_* method of the light Jit for one emitter call: the branches
\* finish the block, every other method pushes its instruction on cur_block
\* with the operands that jit/ir.rs gives it.
light_emit(em, x, addr) ==
    IF x.kind \in BranchKinds
    THEN light_finish_block_with_branch(
             em, IrInst(x.kind, 0, x.ck, <<>>, [ k \in 1..Len(x.r) |-> NewVar(x.r[k]) ]), x.n)
    ELSE emit(em, x, addr)

\* The loop of compile.rs over the words of one function with the Emitter
\* of the light Jit.
RECURSIVE light_emit_function(_, _, _, _, _)
light_emit_function(em, insts, lo, hi, p) ==
    IF lo > hi \/ em.instruction_count # lo - 1 THEN em
    ELSE IF lo = hi
    THEN light_emit(light_prepare_emit(em), insts[lo], SliceIndex(insts[lo], p))
    ELSE LET mid == (lo + hi) \div 2
         IN  light_emit_function(light_emit_function(em, insts, lo, mid, p),
                                 insts, mid + 1, hi, p)

\* finalize up to the push of the return (lines 142-151).
light_push_return(em) ==
    LET e1 == IF em.cur_block.instructions # <<>>
              THEN light_finish_block_with_fall_through(em) ELSE em
    IN  light_finish_block([e1 EXCEPT !.cur_block.terminator_idx = 0,
                                      !.cur_block.instructions = Append(@, IrReturn)])

\* The blocks of one function as finalize holds them when the dominators
\* are computed, and the branch targets still pending.
light_function(insts, p) ==
    [blocks |-> light_push_return(
                    light_emit_function(LightEmitterNew, insts, 1, Len(insts), p)).blocks,
     pending |-> light_emit_function(LightEmitterNew, insts, 1, Len(insts), p).branch_targets]

\* The Function as finalize leaves it, up to the call of RegAllocations::run
\* (lines 137-321): the blocks as the emitter built them, the branch targets
\* still pending, doms, the frontiers, and the blocks with their parameters
\* and the renamed variables.
ir_renamed(em, built, doms, frontiers) ==
    [built |-> built,
     pending |-> em.branch_targets,
     doms |-> doms,
     frontiers |-> frontiers,
     with_params |-> insert_block_params(built, frontiers),
     renamed |-> rename(insert_block_params(built, frontiers), doms)]

ir_dominated(em, built, doms) ==
    ir_renamed(em, built, doms, dominance_frontiers(built, doms))

ir_finalized(em) ==
    ir_dominated(em, push_return(em).blocks, dominators(push_return(em).blocks))

ir_function(insts, p) ==
    ir_finalized(create_branch_targets(emit_function(EmitterNew, insts, 1, Len(insts), p)))

-----------------------------------------------------------------------------
(* jit/mod.rs: Jit and its Runner; arch/x86_64.rs: the generated code.     *)

\* Jit::finish stores its arguments in the order of its own signature.
JitFinish(x, y, z) == [memory_size |-> x, input_size |-> y, output_size |-> z]

\* Values that storage may hold which the generated code has not written.
JunkValues == {0, 9}

\* A machine that runs no generated code.
MachineIdle == [regs |-> [ r \in 0..(REGISTER_COUNT - 1) |-> 0 ], rax |-> 0,
                junk |-> 0, frames |-> <<>>]

\* compile with the Jit as generator: every function is emitted and
\* finalized, then finish assembles them and builds the Runner.
JitCompile ==
    /\ jphase = "new"
    /\ phase # "new"
    /\ \E res \in { compile_with_frequencies(code, params) } :
         IF res.panic # "none"
         THEN /\ jphase' = "panic"
              /\ jpanic' = res.panic
              /\ UNCHANGED <<jfunctions, jrunner, jir>>
         ELSE \E ir \in { [ f \in 1..Len(res.functions) |->
                               ir_function(res.functions[f], params) ] } :
              \E allocs \in { [ f \in 1..Len(ir) |-> finalize_renamed(ir[f].renamed) ] } :
                LET failed == { f \in 1..Len(allocs) : allocs[f].panic # "none" }
                    first == CHOOSE f \in failed : \A o \in failed : f <= o
                IN  /\ jir' = ir
                    /\ IF failed # {}
                       THEN /\ jphase' = "panic"
                            /\ jpanic' = allocs[first].panic
                            /\ UNCHANGED <<jfunctions, jrunner>>
                       ELSE /\ jphase' = "ready"
                            /\ jpanic' = jpanic
                            /\ jfunctions' = allocs
                            /\ jrunner' = JitFinish(params.input_size, params.output_size,
                                                    params.memory_size)
    /\ UNCHANGED <<code, params, jmemory, machine, jsteps>>
    /\ UNCHANGED ivars
    /\ UNCHANGED <<compiler, light>>

\* call of a function label, then emit_prologue: the return address is
\* pushed, the registers of used_regs_mask are pushed and the stack slots
\* are taken from memory that nothing has written.
EnterFunction(m, f) ==
    [m EXCEPT !.frames =
        Append(@, [f |-> f, pc |-> 1, entry |-> 0,
                   saved |-> [ r \in jfunctions[f + 1].used_regs_mask |-> m.regs[r] ],
                   slots |-> [ k \in 0..(jfunctions[f + 1].stack_size - 1) |-> m.junk ]])]

\* Runner::step of the Jit up to the call of the entry point; the caller's
\* registers hold values that the generated code has not written.
JitStep ==
    /\ jphase \in {"ready", "done"}
    /\ phase # "running"
    /\ jsteps < steps
    /\ jsteps' = jsteps + 1
    /\ IF jrunner.memory_size + jrunner.input_size + jrunner.output_size <= Len(jmemory)
       THEN /\ jmemory' = [ k \in 1..Len(jmemory) |->
                              IF k > Len(jmemory) - jrunner.output_size THEN 0
                              ELSE jmemory[k] ]
            /\ \E junk \in JunkValues :
                 machine' = EnterFunction(
                                [regs |-> [ r \in 0..(REGISTER_COUNT - 1) |-> junk ],
                                 rax |-> junk, junk |-> junk, frames |-> <<>>], 0)
            /\ jphase' = "running"
            /\ jpanic' = jpanic
       ELSE /\ jphase' = "panic"
            /\ jpanic' = "step: assert!(memory_size + input_size + output_size <= len)"
            /\ UNCHANGED <<jmemory, machine>>
    /\ UNCHANGED <<code, params, jfunctions, jrunner, jir>>
    /\ UNCHANGED ivars
    /\ UNCHANGED <<compiler, light>>

JitTop == machine.frames[Len(machine.frames)]
JitCode == jfunctions[JitTop.f + 1].instructions

\* The value of an operand: a register, or a slot at [rsp + offset].
operand(m, v) ==
    IF v.is_stack THEN m.frames[Len(m.frames)].slots[v.idx] ELSE m.regs[v.idx]

set_operand(m, v, x) ==
    IF v.is_stack THEN [m EXCEPT !.frames[Len(m.frames)].slots[v.idx] = x]
    ELSE [m EXCEPT !.regs[v.idx] = x]

\* The moves emitted for the actions k.. of an instruction (lines 88-99).
RECURSIVE run_actions(_, _, _)
run_actions(m, actions, k) ==
    IF k > Len(actions) THEN m
    ELSE run_actions(
           CASE actions[k].op = "RegToStack" ->
                  [m EXCEPT !.frames[Len(m.frames)].slots[actions[k].x] =
                                m.regs[actions[k].y]]
             [] actions[k].op = "StackToReg" ->
                  [m EXCEPT !.regs[actions[k].x] =
                                m.frames[Len(m.frames)].slots[actions[k].y]]
             [] OTHER -> m,
           actions, k + 1)

\* The place of the label of block b in function f: the instruction whose
\* actions hold BlockStart(b), and the position of that action in them.
LabelPc(f, b) ==
    CHOOSE pc \in 1..Len(jfunctions[f + 1].instructions) :
        \E k \in 1..Len(jfunctions[f + 1].instructions[pc].actions) :
            jfunctions[f + 1].instructions[pc].actions[k] = RegAllocAction("BlockStart", b, 0)

LabelAction(f, b) ==
    LET actions == jfunctions[f + 1].instructions[LabelPc(f, b)].actions
    IN  CHOOSE k \in 1..Len(actions) : actions[k] = RegAllocAction("BlockStart", b, 0)

\* The block named by the BranchExit action of a branch.
branch_exit(inst) ==
    LET k == CHOOSE q \in 1..Len(inst.actions) : inst.actions[q].op = "BranchExit"
    IN  inst.actions[k].x

\* je / jne / jg / jl after cmp, and je / jne after test (lines 146-162).
JumpTaken(inst, m) ==
    LET a == operand(m, inst.uses[1])
        b == IF inst.kind = "BranchCmp" THEN operand(m, inst.uses[2]) ELSE 0
    IN  CASE inst.kind = "BranchZero" -> a = 0
          [] inst.kind = "BranchNonZero" -> a # 0
          [] inst.ck = "Eq" -> a = b
          [] inst.ck = "Neq" -> a # b
          [] inst.ck = "Gt" -> a > b
          [] OTHER -> a < b

\* The kinds of instruction whose machine code is modelled.
LoweredKinds == {"Return", "InitVar", "Call", "BranchCmp", "BranchZero", "BranchNonZero",
                 "IntInc", "IntDec", "MemLoad", "MemStore", "BitShiftRight", "BitSelect"}

\* mov d, u0 when the two operands differ (lines 276-278, 312-314).
mov_to_dst(inst, m) ==
    IF inst.defs[1] # inst.uses[1]
    THEN set_operand(m, inst.defs[1], operand(m, inst.uses[1]))
    ELSE m

\* BitShiftRight: mov, then sar d, amount when amount != 0 (lines 275-286).
lowered_shift_right(inst, m) ==
    IF inst.n # 0
    THEN set_operand(mov_to_dst(inst, m), inst.defs[1],
                     ShiftRightArith(operand(mov_to_dst(inst, m), inst.defs[1]), inst.n))
    ELSE mov_to_dst(inst, m)

\* BitSelect: mov, then xor d, u1; and d, u2; xor d, u1 (lines 311-319).
xor_to(m, d, u) == set_operand(m, d, BitXor(operand(m, d), operand(m, u)))
and_to(m, d, u) == set_operand(m, d, BitAnd(operand(m, d), operand(m, u)))

lowered_select(inst, m) ==
    xor_to(and_to(xor_to(mov_to_dst(inst, m), inst.defs[1], inst.uses[2]),
                  inst.defs[1], inst.uses[3]),
           inst.defs[1], inst.uses[2])

\* The code emitted for the match on inst.kind (lines 139-370), for the
\* kinds that do not jump or call.
lowered(inst, m, mem) ==
    CASE inst.kind = "InitVar" -> [m EXCEPT !.regs[inst.defs[1].idx] = 0]
      [] inst.kind = "IntInc" ->
           [m EXCEPT !.regs[inst.defs[1].idx] = m.regs[inst.uses[1].idx] + 1]
      [] inst.kind = "IntDec" ->
           [m EXCEPT !.regs[inst.defs[1].idx] = m.regs[inst.uses[1].idx] - 1]
      [] inst.kind = "MemLoad" -> [m EXCEPT !.regs[inst.defs[1].idx] = mem[inst.n + 1]]
      [] inst.kind = "MemStore" ->
           [m EXCEPT !.rax = inst.n * 8, !.regs[inst.uses[1].idx] = mem[inst.n + 1]]
      [] inst.kind = "BitShiftRight" -> lowered_shift_right(inst, m)
      [] inst.kind = "BitSelect" -> lowered_select(inst, m)
      [] OTHER -> m

\* The machine code of one RegAllocInstruction: the moves of its actions
\* (from the label on when it was reached by a jump), then the code of
\* its kind.  No generated instruction writes to memory.
JitExec ==
    /\ jphase = "running"
    /\ phase # "running"
    /\ JitTop.pc <= Len(JitCode)
    /\ LET inst == JitCode[JitTop.pc]
           top == Len(machine.frames)
           moved == run_actions(machine, inst.actions, JitTop.entry + 1)
           next == [moved EXCEPT !.frames[top].pc = @ + 1, !.frames[top].entry = 0]
       IN  /\ inst.kind \in LoweredKinds
           /\ machine' =
                CASE inst.kind = "Call" -> EnterFunction(next, inst.n)
                  [] inst.kind \in BranchKinds ->
                       IF JumpTaken(inst, moved)
                       THEN [moved EXCEPT
                               !.frames[top].pc = LabelPc(JitTop.f, branch_exit(inst)),
                               !.frames[top].entry = LabelAction(JitTop.f, branch_exit(inst))]
                       ELSE next
                  [] OTHER -> lowered(inst, next, jmemory)
    /\ UNCHANGED <<code, params, jphase, jpanic, jfunctions, jrunner, jmemory, jsteps, jir>>
    /\ UNCHANGED ivars
    /\ UNCHANGED <<compiler, light>>

\* emit_epilogue: the stack slots are released, the registers of
\* used_regs_mask are popped and ret returns to the caller.
JitReturn ==
    /\ jphase = "running"
    /\ phase # "running"
    /\ JitTop.pc > Len(JitCode)
    /\ machine' = [machine EXCEPT
                     !.regs = [ r \in DOMAIN @ |->
                                  IF r \in DOMAIN JitTop.saved THEN JitTop.saved[r] ELSE @[r] ],
                     !.frames = SubSeq(@, 1, Len(@) - 1)]
    /\ jphase' = IF Len(machine.frames) = 1 THEN "done" ELSE "running"
    /\ UNCHANGED <<code, params, jpanic, jfunctions, jrunner, jmemory, jsteps, jir>>
    /\ UNCHANGED ivars
    /\ UNCHANGED <<compiler, light>>

-----------------------------------------------------------------------------
(* Inputs *)

RECURSIVE SeqsUpTo(_, _)
SeqsUpTo(S, n) ==
    IF n = 0 THEN { <<>> }
    ELSE LET shorter == SeqsUpTo(S, n - 1)
         IN  shorter \cup { Append(s, x) : s \in { t \in shorter : Len(t) = n - 1 }, x \in S }

DF == DefaultFrequencies
Sel(name) == FirstSelector(DF, name)

WEnd == MkWord(0, 0, 0, 0)
WCall(imm) == MkWord(Sel("CALL"), 0, 0, imm)
WInc(r) == MkWord(Sel("INT_INC"), r, 0, 0)
WDec(r) == MkWord(Sel("INT_DEC"), r, 0, 0)
WStore(r, imm) == MkWord(Sel("MEM_STORE"), r, 0, imm)
WBranchZero(r, imm) == MkWord(Sel("BRANCH_ZERO"), r, 0, imm)
WBranchNonZero(r, imm) == MkWord(Sel("BRANCH_NON_ZERO"), r, 0, imm)
WBranchCmp(ck, b, imm) == MkWord(Sel("BRANCH_CMP"), ck, b, imm)

\* Word sets of the interpreter specification: calls, and one set per branch.
RunWordSets ==
    { {WEnd, WCall(0), WInc(0), WStore(0, 0)},
      {WEnd, WCall(0), WInc(0), WBranchZero(0, 5)},
      {WInc(0), WStore(0, 1), WBranchZero(0, 5), WBranchNonZero(0, 5)} }
      \cup { {WInc(0), WDec(1), WStore(0, 1), WBranchCmp(ck, 0, 65)} : ck \in 0..3 }

RunCodes == UNION { SeqsUpTo(ws, MaxCodeLen) : ws \in RunWordSets }

Params(L, isz, osz, msz, F) ==
    [lowest_function_level |-> L, input_size |-> isz, output_size |-> osz,
     memory_size |-> msz, freq |-> F]

RunParams == { Params(2, 1, 1, 2, DF) }

\* Compiler::new for both generators: no buffer holds anything, and no
\* Runner was returned.
NewCompilers ==
    [ifuncs |-> <<>>, igen |-> <<>>, jfuncs |-> <<>>, jgen |-> <<>>, runners |-> <<>>]

InitCommon ==
    /\ compiler = NewCompilers
    /\ light = <<>>
    /\ phase = "new"
    /\ panic = "none"
    /\ funcs = <<>>
    /\ functions = <<>>
    /\ runner = InterpreterFinish(0, 0, 0)
    /\ stack = <<>>
    /\ steps = 0
    /\ jpanic = "none"
    /\ jfunctions = <<>>
    /\ jir = <<>>
    /\ jrunner = JitFinish(0, 0, 0)
    /\ machine = MachineIdle
    /\ jsteps = 0

\* No Jit is constructed.
JitOff ==
    /\ jphase = "off"
    /\ jmemory = <<>>

Init ==
    /\ code \in RunCodes
    /\ params \in RunParams
    /\ memory = << 5, 6, 7, 8 >>
    /\ InitCommon
    /\ JitOff

Next ==
    \/ Compile
    \/ Step
    \/ SkipInstruction
    \/ ExecCall
    \/ ExecInstruction
    \/ ReturnFromFunction

Spec == Init /\ [][Next]_vars

\* The steps of call_function; a started step keeps running until it
\* returns or panics (the Runner is single-threaded and nothing blocks).
Run ==
    \/ SkipInstruction
    \/ ExecCall
    \/ ExecInstruction
    \/ ReturnFromFunction

SpecLive == Spec /\ WF_vars(Run)

-----------------------------------------------------------------------------
(* The decoder alone, on wider inputs: long call structures under every    *)
(* lowest_function_level, every opcode of three frequency tables (between  *)
(* up to MaxPad int_inc words on each side) under empty and non-empty      *)
(* banks, and the codes of the interpreter runs.                           *)

CallCodes == SeqsUpTo({WEnd, WCall(0), WCall(1)}, MaxCallCodeLen)

Repeat(w, n) == [ k \in 1..n |-> w ]

Tables == {DefaultFrequencies, ControlFrequencies, ShortFrequencies}

\* For each opcode of weight > 0 the first and the last selector of its
\* interval, with a = 1, b = 2, imm = 65 + 3 * 2^14 (c = 1, d = 3).
OpcodeWords(F) ==
    { MkWord(FirstSelector(F, OpNames[k]) + d, 1, 2, 49217) :
        k \in { j \in 1..Len(OpNames) : F[j] > 0 }, d \in {0} } \cup
    { MkWord(FirstSelector(F, OpNames[k]) + F[k] - 1, 1, 2, 49217) :
        k \in { j \in 1..Len(OpNames) : F[j] > 0 } }

InitDecode ==
    /\ \/ /\ code \in CallCodes
          /\ params \in { Params(L, 1, 1, 2, DF) : L \in 0..MaxLevel }
       \/ \E F \in Tables :
             /\ code \in { Repeat(MkWord(FirstSelector(F, "INT_INC"), 0, 0, 0), n1)
                             \o << w >> \o
                           Repeat(MkWord(FirstSelector(F, "INT_INC"), 0, 0, 0), n2) :
                             w \in OpcodeWords(F),
                             n1 \in 0..MaxPad, n2 \in 0..MaxPad }
             /\ params \in { Params(L, sz[1], sz[2], sz[3], F) :
                               L \in {0, 1}, sz \in { <<0, 0, 0>>, <<1, 1, 2>> } }
       \/ /\ code \in RunCodes
          /\ params \in RunParams
    /\ memory = << 5, 6, 7, 8 >>
    /\ InitCommon
    /\ JitOff

NextDecode == Compile

SpecDecode == InitDecode /\ [][NextDecode]_vars

-----------------------------------------------------------------------------
(* The program compiled once for the Interpreter and once for the Jit; the *)
(* host lets both Runners step on equal memory, the Interpreter first.     *)

\* mem_store mem[0] <- r for every register r from lo to hi.
RECURSIVE StoreRegisters(_, _)
StoreRegisters(lo, hi) ==
    IF lo = hi THEN << WStore(lo, 0) >>
    ELSE StoreRegisters(lo, (lo + hi) \div 2) \o StoreRegisters((lo + hi) \div 2 + 1, hi)

JitCodes ==
    { << WInc(0), WStore(0, 0) >>,
      << WDec(1), WStore(1, 1), WInc(0) >>,
      << WBranchZero(0, 5), WInc(0), WStore(0, 1), WInc(1), WStore(1, 0) >>,
      << WInc(0), WBranchNonZero(0, 5), WInc(0), WStore(0, 1) >>,
      << WInc(1), WBranchCmp(2, 1, 5), WInc(1), WStore(1, 0) >>,
      << WCall(0), WInc(0), WStore(0, 0), WEnd, WInc(1), WStore(1, 1) >>,
      StoreRegisters(0, 62),
      StoreRegisters(0, 63) }

JitParams == { Params(L, 1, 1, 2, DF) : L \in {0, 1} }

WLoad(r, imm) == MkWord(Sel("MEM_LOAD"), r, 0, imm)
WShiftRight(dst, src, amount) == MkWord(Sel("BIT_SHIFT_R"), dst, src, amount)
WSelect(dst, mask, a, b) == MkWord(Sel("BIT_SELECT"), dst, mask, a + 16384 * b)

\* The amounts of the shifts: none, one, some and all but one of the bits.
ShiftAmounts == {0, 1, 3, 63}

\* instruction_tests of codegen/mod.rs: bit_shift_right loads a register,
\* shifts it and stores the result; mem loads a register and stores it to the
\* next element; bit_select loads the mask and a, makes b = 1 or b = -1 in a
\* register, selects and stores.
BitCodes ==
    { << WLoad(0, 0), WShiftRight(1, 0, n), WStore(1, 1) >> : n \in ShiftAmounts } \cup
    { << WLoad(0, 0), WStore(0, 1) >> } \cup
    { << WLoad(0, 0), WLoad(1, 1), WInc(2), WSelect(3, 0, 1, 2), WStore(3, 0) >>,
      << WLoad(0, 0), WLoad(1, 1), WDec(2), WSelect(3, 0, 1, 2), WStore(3, 0) >> }

\* Slices for the codes of BitCodes: the shifted value or the mask, then a.
BitMemories ==
    { << 8, 31, 7, 8 >>, << -1, 31, 7, 8 >>, << -93, 12, 7, 8 >>, << 0, 31, 7, 8 >> }

\* The slices the host hands to step: one of the declared length and one
\* that is an element short.
JitMemories == { << 5, 6, 7, 8 >>, << 5, 6, 7 >> }

InitJit ==
    /\ \/ code \in JitCodes /\ memory \in JitMemories
       \/ code \in BitCodes /\ memory \in BitMemories
    /\ params \in JitParams
    /\ InitCommon
    /\ jphase = "new"
    /\ jmemory = memory

NextJit ==
    \/ Compile
    \/ Step
    \/ SkipInstruction
    \/ ExecCall
    \/ ExecInstruction
    \/ ReturnFromFunction
    \/ JitCompile
    \/ JitStep
    \/ JitExec
    \/ JitReturn

SpecJit == InitJit /\ [][NextJit]_vars

-----------------------------------------------------------------------------
(* One Compiler of each generator used for several compilations: the       *)
(* buffers of the Compiler and of its generator outlive compile.           *)

MaxCompiles == 2

\* Codes of different shapes: no word, one short function, two functions
\* with a call, three functions.
ReuseCodes ==
    { <<>>,
      << WInc(0) >>,
      << WInc(0), WStore(0, 0), WEnd, WDec(1), WInc(1), WStore(1, 1) >>,
      << WCall(0), WEnd, WInc(0), WEnd, WStore(0, 1) >>,
      << WLoad(0, 0), WStore(0, 1) >> }

ReuseParams == { Params(1, 1, 1, 2, DF) }

\* Compiler::clear
clear(buffer) == SubSeq(buffer, 1, 0)

\* Pass 1 on the buffer self.funcs as clear left it (compile.rs lines 76-92).
Pass1On(buffer, c, F) ==
    LET counted == Scan(c, F, 1, Len(c), Append(buffer, NewFunction(0)))
        retained == SelectSeq(counted, LAMBDA fn : fn.instruction_count > 0)
    IN  IF retained = <<>> THEN << NewFunction(0) >> ELSE retained

\* Vec::resize and Vec::resize_with to n elements, new ones being `fill`.
resize(buffer, n, fill) ==
    IF n <= Len(buffer) THEN SubSeq(buffer, 1, n)
    ELSE buffer \o [ k \in 1..(n - Len(buffer)) |-> fill ]

\* An Interpreter::begin that resizes without clearing the functions.
InterpreterBegin_keeping(functions_buffer, function_count) ==
    resize(functions_buffer, function_count, <<>>)

\* Interpreter::begin: every function is cleared, then the vector resized.
InterpreterBegin(functions_buffer, function_count) ==
    resize([ k \in 1..Len(functions_buffer) |-> clear(functions_buffer[k]) ],
           function_count, <<>>)

\* Jit::begin: resize_with(function_count, Default::default); the blocks of
\* a default Function are empty.
JitBegin(functions_buffer, function_count) ==
    resize(functions_buffer, function_count, <<>>)

\* begin_function, the emitter calls and finalize on a Function of the Jit
\* whose blocks are func_blocks: Emitter::new takes the Function as it is.
jit_function_on(func_blocks, insts, p) ==
    finalize(emit_function([EmitterNew EXCEPT !.blocks = func_blocks], insts, 1,
                           Len(insts), p))

\* The emitter calls of pass 2 for the functions fs: the Emitter of the
\* Interpreter pushes each instruction onto functions[idx].
InterpreterEmit(begun, c, fs, p) ==
    [ f \in 1..Len(fs) |->
        begun[f] \o [ i \in 1..fs[f].instruction_count |->
                        DecodeFunction(c, fs, f - 1,
                                       LevelSize(Len(fs), p.lowest_function_level),
                                       p)[i].inst ] ]

\* compile on the Compiler<Interpreter>: clear, pass 1, begin, pass 2 and
\* finish, which clones the functions into the Runner.
ReuseCompileWith(c, p, fs, begun) ==
    /\ UNCHANGED light
    /\ compiler' =
         [compiler EXCEPT
            !.ifuncs = fs,
            !.igen = InterpreterEmit(begun, c, fs, p),
            !.runners = Append(@, [gen |-> "Interpreter", code |-> c, params |-> p,
                                   functions |-> InterpreterEmit(begun, c, fs, p)])]

ReuseCompile ==
    /\ Len(compiler.runners) < MaxCompiles
    /\ \E c \in ReuseCodes, p \in ReuseParams :
         /\ compile_with_frequencies(c, p).panic = "none"
         /\ ReuseCompileWith(c, p, Pass1On(clear(compiler.ifuncs), c, p.freq),
                             InterpreterBegin(compiler.igen,
                                 Len(Pass1On(clear(compiler.ifuncs), c, p.freq))))
    /\ UNCHANGED <<code, params>>
    /\ UNCHANGED ivars
    /\ UNCHANGED jvars

\* The reg_allocs of the functions fs compiled into the Functions `begun`.
JitEmit(begun, c, fs, p) ==
    [ f \in 1..Len(fs) |->
        jit_function_on(begun[f],
                        [ i \in 1..fs[f].instruction_count |->
                            DecodeFunction(c, fs, f - 1,
                                           LevelSize(Len(fs), p.lowest_function_level),
                                           p)[i].inst ],
                        p) ]

\* compile on the Compiler<Jit>: finish drains the functions (line 38) and
\* assembles their reg_allocs into the code the Runner owns.
ReuseJitCompileWith(c, p, fs, begun) ==
    /\ \A f \in 1..Len(fs) : JitEmit(begun, c, fs, p)[f].panic = "none"
    /\ UNCHANGED light
    /\ compiler' =
         [compiler EXCEPT
            !.jfuncs = fs,
            !.jgen = SubSeq(begun, 1, 0),
            !.runners = Append(@, [gen |-> "Jit", code |-> c, params |-> p,
                                   functions |-> JitEmit(begun, c, fs, p)])]

ReuseJitCompile ==
    /\ Len(compiler.runners) < MaxCompiles
    /\ \E c \in ReuseCodes, p \in ReuseParams :
         /\ compile_with_frequencies(c, p).panic = "none"
         /\ ReuseJitCompileWith(c, p, Pass1On(clear(compiler.jfuncs), c, p.freq),
                                JitBegin(compiler.jgen,
                                    Len(Pass1On(clear(compiler.jfuncs), c, p.freq))))
    /\ UNCHANGED <<code, params>>
    /\ UNCHANGED ivars
    /\ UNCHANGED jvars

InitReuse ==
    /\ code = <<>>
    /\ params \in ReuseParams
    /\ memory = <<>>
    /\ InitCommon
    /\ JitOff

NextReuse ==
    \/ ReuseCompile
    \/ ReuseJitCompile

SpecReuse == InitReuse /\ [][NextReuse]_vars

-----------------------------------------------------------------------------
(* The ir of the Jit for codes with many branches: compile with the        *)
(* Interpreter, then with the Jit, whose finalize leaves the ir in jir.    *)

MaxIrLen == 4

\* Branches of the three kinds with different immediates, so that the
\* offsets differ with the place of the branch, and two other words.
IrWords ==
    { WInc(0), WStore(1, 0), WBranchZero(0, 1), WBranchNonZero(1, 2), WBranchCmp(2, 1, 7) }

\* Longer functions in which a branch follows the join of an earlier one,
\* so that a later join is dominated by a block other than the entry, and a
\* function that stores at the join the register incremented in one arm.
NestedCodes ==
    { << WBranchZero(0, 1), WInc(0), WBranchZero(0, 1), WInc(0), WStore(1, 0) >>,
      << WBranchZero(0, 1), WInc(0), WBranchNonZero(1, 2), WBranchZero(0, 1),
         WInc(0), WStore(1, 0) >>,
      << WBranchZero(0, 1), WInc(1), WBranchNonZero(1, 2), WBranchZero(0, 1),
         WInc(0), WStore(0, 0) >>,
      << WBranchCmp(2, 1, 7), WBranchZero(0, 1), WInc(0), WStore(1, 0), WInc(1) >>,
      << WBranchNonZero(1, 1), WInc(0), WStore(0, 0) >> }

\* Functions that read more registers than the target has: selects, whose
\* kind takes a memory operand, and stores, whose kind does not, with the
\* registers read again at the end so that they stay live.
SpillCodes ==
    { StoreRegisters(0, 15),
      << WSelect(16, 17, 18, 19), WSelect(12, 13, 14, 15) >> \o StoreRegisters(0, 19),
      << WSelect(0, 1, 2, 3), WSelect(4, 5, 6, 7), WSelect(8, 9, 10, 11),
         WSelect(12, 13, 14, 15), WSelect(16, 17, 18, 19), WStore(0, 0), WStore(4, 0),
         WStore(8, 0), WStore(12, 0), WStore(16, 0) >>,
      << WBranchZero(0, 1), WSelect(13, 14, 15, 16) >> \o StoreRegisters(0, 16) }

IrCodes == SeqsUpTo(IrWords, MaxIrLen) \cup NestedCodes \cup SpillCodes

InitIr ==
    /\ code \in IrCodes
    /\ params = Params(1, 1, 1, 2, DF)
    /\ memory = << 5, 6, 7, 8 >>
    /\ InitCommon
    /\ jphase = "new"
    /\ jmemory = memory

\* The functions of the compiled program emitted into the Emitter of the
\* light Jit.
LightCompile ==
    /\ phase = "ready"
    /\ light = <<>>
    /\ light' = [ f \in 1..Len(functions) |-> light_function(functions[f], params) ]
    /\ UNCHANGED <<code, params, compiler>>
    /\ UNCHANGED ivars
    /\ UNCHANGED jvars

NextIr ==
    \/ Compile
    \/ JitCompile
    \/ LightCompile

SpecIr == InitIr /\ [][NextIr]_vars

-----------------------------------------------------------------------------
(* Runner::step with sizes of the full width of u32.  A u32 is a pair of    *)
(* 16-bit halves [hi, lo]; the program is the empty code, whose one        *)
(* function returns at once, compiled with sizes of any magnitude.          *)

MaxWideLen == 3

\* 2^16: the fields of the Runner are u32, two halves of 16 bits.
HALF == 65536

U32(hi, lo) == [hi |-> hi, lo |-> lo]

\* a + b on u32: the wrapped value, and whether the sum left the range.
u32_add(a, b) ==
    [value |-> U32((a.hi + b.hi + (a.lo + b.lo) \div HALF) % HALF, (a.lo + b.lo) % HALF),
     overflow |-> a.hi + b.hi + (a.lo + b.lo) \div HALF >= HALF]

\* (x as usize) <= len for the length len of a slice of the model.
usize_le(x, len) == x.hi = 0 /\ x.lo <= len

\* The checks of step on the sizes a, b, c in the order of the sum, for a
\* slice of length len: the panic, or "none".  A build with overflow checks
\* panics when a sum leaves the range, a build without them goes on with the
\* wrapped value; memory.len() - output_size below zero panics in the one
\* and makes a range start past the end of the slice in the other.
step_checks(a, b, c, output_size, len, overflow_checks) ==
    LET first == u32_add(a, b)
        second == u32_add(first.value, c)
    IN  IF overflow_checks /\ (first.overflow \/ second.overflow)
        THEN "step: attempt to add with overflow"
        ELSE IF ~usize_le(second.value, len)
        THEN "step: memory slice too small"
        ELSE IF ~usize_le(output_size, len)
        THEN "step: range start out of range"
        ELSE "none"

\* Runner::step of the Interpreter (lines 65-71) on u32 sizes.
WideStep ==
    /\ phase = "ready"
    /\ steps < 1
    /\ steps' = steps + 1
    /\ \E overflow_checks \in BOOLEAN :
         LET failed == step_checks(runner.memory_size, runner.output_size,
                                   runner.input_size, runner.output_size,
                                   Len(memory), overflow_checks)
         IN  IF failed = "none"
             THEN /\ memory' = [ k \in 1..Len(memory) |->
                                   IF k > Len(memory) - runner.output_size.lo THEN 0
                                   ELSE memory[k] ]
                  /\ stack' = << Frame(0) >>
                  /\ phase' = "running"
                  /\ panic' = panic
             ELSE /\ phase' = "panic"
                  /\ panic' = failed
                  /\ UNCHANGED <<memory, stack>>
    /\ UNCHANGED <<code, params, funcs, functions, runner>>
    /\ UNCHANGED jvars
    /\ UNCHANGED <<compiler, light>>

\* Runner::step of the Jit (lines 81-90) on u32 sizes; the entry point of the
\* empty program returns without touching the slice.
JitWideStep ==
    /\ jphase = "ready"
    /\ jsteps < 1
    /\ jsteps' = jsteps + 1
    /\ \E overflow_checks \in BOOLEAN :
         LET failed == step_checks(jrunner.memory_size, jrunner.input_size,
                                   jrunner.output_size, jrunner.output_size,
                                   Len(jmemory), overflow_checks)
         IN  IF failed = "none"
             THEN /\ jmemory' = [ k \in 1..Len(jmemory) |->
                                    IF k > Len(jmemory) - jrunner.output_size.lo THEN 0
                                    ELSE jmemory[k] ]
                  /\ jphase' = "done"
                  /\ jpanic' = jpanic
             ELSE /\ jphase' = "panic"
                  /\ jpanic' = failed
                  /\ UNCHANGED jmemory
    /\ UNCHANGED <<code, params, jfunctions, jrunner, machine, jir>>
    /\ UNCHANGED ivars
    /\ UNCHANGED <<compiler, light>>

\* Sizes around the ends of the range of u32 and around the lengths of the
\* slices.
WideSizes ==
    { U32(0, 0), U32(0, 1), U32(0, 2), U32(1, 0), U32(32768, 0),
      U32(65535, 65534), U32(65535, 65535) }

WideMemories == { [ k \in 1..n |-> 4 + k ] : n \in 0..MaxWideLen }

\* The empty code compiled for both back-ends with sizes of any magnitude.
InitWide ==
    /\ code = <<>>
    /\ \E isz, osz, msz \in WideSizes : params = Params(1, isz, osz, msz, DF)
    /\ memory \in WideMemories
    /\ jmemory = memory
    /\ phase = "ready"
    /\ panic = "none"
    /\ funcs = compile_with_frequencies(<<>>, Params(1, 0, 0, 0, DF)).funcs
    /\ functions = compile_with_frequencies(<<>>, Params(1, 0, 0, 0, DF)).functions
    /\ runner = InterpreterFinish(params.input_size, params.output_size, params.memory_size)
    /\ stack = <<>>
    /\ steps = 0
    /\ jphase = "ready"
    /\ jpanic = "none"
    /\ jfunctions = <<>>
    /\ jir = <<>>
    /\ jrunner = JitFinish(params.input_size, params.output_size, params.memory_size)
    /\ machine = MachineIdle
    /\ jsteps = 0
    /\ compiler = NewCompilers
    /\ light = <<>>

NextWide ==
    \/ WideStep
    \/ ReturnFromFunction
    \/ JitWideStep

SpecWide == InitWide /\ [][NextWide]_vars

-----------------------------------------------------------------------------
(* Properties of the decoder *)

Compiled == phase # "new"
FuncCount == Len(funcs)
LowestLevel == params.lowest_function_level
level_size == LevelSize(FuncCount, LowestLevel)
FuncIds == 0..(FuncCount - 1)
Offsets(f) == 0..(Len(functions[f + 1]) - 1)
InstAt(f, i) == functions[f + 1][i + 1]
WordOpAt(f, i) == OpOf(Kind(FuncWord(code, funcs[f + 1], i)), params.freq)
WordImmAt(f, i) == Imm(FuncWord(code, funcs[f + 1], i))

\* The functions that function f calls, and those it reaches through calls.
Callees(f) ==
    { InstAt(f, i).n : i \in { j \in Offsets(f) : InstAt(f, j).kind = "Call" } }
        \cap FuncIds

RECURSIVE ReachN(_, _)
ReachN(S, n) ==
    IF n = 0 THEN S ELSE ReachN(S \cup UNION { Callees(g) : g \in S }, n - 1)

Reach(f) == ReachN(Callees(f), FuncCount)

\* Length of the longest chain of nested calls that starts in f, cut off
\* after `fuel` calls.
RECURSIVE ChainDepth(_, _)
ChainDepth(f, fuel) ==
    IF fuel = 0 \/ Callees(f) = {} THEN 0
    ELSE LET below == { ChainDepth(g, fuel - 1) : g \in Callees(f) }
         IN  1 + CHOOSE m \in below : \A o \in below : o <= m

\* C2: decoding is total: compile_with_frequencies returns a Runner for every
\* code, level, bank sizes and frequency table of sum 65536; no underflow of
\* `kind -= END_FUNC` or in branch_offset, no division by zero, and the final
\* panic of the dispatch chain is not reached.
C2_DecodingTotal ==
    /\ sum_delta(params.freq) = 0
    /\ Compiled => phase = "ready" /\ panic = "none"

\* A compiled code whose last word carries the last selector, 65535, and is
\* an output store into an empty output bank, or a branch without room, or
\* a call without callable function.
C2_Witness ==
    /\ phase = "ready"
    /\ code # <<>>
    /\ Kind(code[Len(code)]) = 65535
    /\ \/ params.output_size = 0 /\ params.freq = DefaultFrequencies
       \/ params.freq = ControlFrequencies
       \/ params.freq = ShortFrequencies

\* C5: every call emitted from function f at level l has a target idx with
\* 1 + l * level_size <= idx < N and idx > f; no function reaches itself
\* through calls; a CALL word is a nop when lowest_function_level is 0 or the
\* callable range is empty.
C5_CallsAcyclic ==
    Compiled =>
      \A f \in FuncIds :
        /\ f \notin Reach(f)
        /\ \A i \in Offsets(f) :
             LET l == CurLevel(f, level_size)
             IN  /\ InstAt(f, i).kind = "Call" =>
                       /\ WordOpAt(f, i) = "CALL"
                       /\ 1 + l * level_size <= InstAt(f, i).n
                       /\ InstAt(f, i).n < FuncCount
                       /\ InstAt(f, i).n > f
                 /\ WordOpAt(f, i) = "CALL"
                      /\ (LowestLevel = 0 \/ FuncCount <= 1 + l * level_size)
                      => InstAt(f, i) = Nop

\* Four functions in two levels: function 0 calls, function 1 (level 1)
\* calls into level 2, and the CALL word of function 3 (level 2) is a nop.
C5_Witness ==
    /\ phase = "ready"
    /\ FuncCount = 4
    /\ LowestLevel = 2
    /\ InstAt(0, 0).kind = "Call"
    /\ InstAt(1, 0).kind = "Call"
    /\ InstAt(1, 0).n = 3
    /\ WordOpAt(3, 0) = "CALL"
    /\ InstAt(3, 0) = Nop

\* C6: for L >= 1 every function f in [1, N) has a level of at most L, every
\* emitted call goes to a function of strictly greater level than its
\* caller, and no chain of nested calls is deeper than L.
C6_LevelsBounded ==
    Compiled /\ LowestLevel >= 1 =>
      /\ \A f \in FuncIds \ {0} :
           /\ level_size >= 1
           /\ CurLevel(f, level_size) = 1 + (f - 1) \div level_size
           /\ CurLevel(f, level_size) <= LowestLevel
      /\ \A f \in FuncIds : \A g \in Callees(f) :
           CurLevel(g, level_size) > CurLevel(f, level_size)
      /\ \A f \in FuncIds : ChainDepth(f, FuncCount + 1) <= LowestLevel

\* Four functions and L = 2: two functions per level, and a chain of two
\* nested calls, as deep as L allows.
C6_Witness ==
    /\ phase = "ready"
    /\ FuncCount = 4
    /\ LowestLevel = 2
    /\ level_size = 2
    /\ CurLevel(3, level_size) = 2
    /\ ChainDepth(0, FuncCount + 1) = 2

-----------------------------------------------------------------------------
(* Properties of the interpreter *)

\* The top frame is about to dispatch or skip the instruction at Top.ip.
Dispatching == AtInstruction /\ Top.skip_count = 0
Skipping == AtInstruction /\ Top.skip_count > 0

\* Index of the instruction that the top frame executes next: the skipped
\* instructions are passed over first.
ResumeIndex(fr) == fr.ip + fr.skip_count

\* The branch condition of the instruction, on signed integers.
SignedCondition(inst, regs) ==
    \/ inst.kind = "BranchZero" /\ regs[inst.r[1]] = 0
    \/ inst.kind = "BranchNonZero" /\ regs[inst.r[1]] # 0
    \/ inst.kind = "BranchCmp" /\ inst.ck = "Eq" /\ regs[inst.r[1]] = regs[inst.r[2]]
    \/ inst.kind = "BranchCmp" /\ inst.ck = "Neq" /\ regs[inst.r[1]] # regs[inst.r[2]]
    \/ inst.kind = "BranchCmp" /\ inst.ck = "Gt" /\ regs[inst.r[1]] > regs[inst.r[2]]
    \/ inst.kind = "BranchCmp" /\ inst.ck = "Lt" /\ regs[inst.r[1]] < regs[inst.r[2]]

TakenBranch ==
    Dispatching /\ CurInst.kind \in BranchKinds /\ SignedCondition(CurInst, Top.regs)

NoRepeatOnStack ==
    \A j, k \in 1..Len(stack) : j # k => stack[j].idx # stack[k].idx

\* C7: every emitted branch at in-function index i has an offset k >= 1 and
\* execution resumes at an instruction of the same function strictly after
\* the branch; the interpreter's assert_eq!(skip_count, 0) never fails.
C7_BoundedBranches ==
    /\ panic # "assert_eq!(skip_count, 0)"
    /\ Compiled =>
         \A f \in FuncIds : \A i \in Offsets(f) :
           InstAt(f, i).kind \in BranchKinds =>
             /\ InstAt(f, i).n >= 1
             /\ i + InstAt(f, i).n + 1 > i
             /\ i + InstAt(f, i).n + 1 <= Len(functions[f + 1]) - 1
    /\ phase = "running" =>
         \A j \in 1..Len(stack) :
           ResumeIndex(stack[j]) <= Len(functions[stack[j].idx + 1])
    /\ Skipping => ResumeIndex(Top) <= Len(TopFunction) - 1

\* A function returns right after the instruction at which a taken branch
\* resumed: the branch skipped up to the last instruction but one.
C7_Witness ==
    /\ phase = "running"
    /\ stack # <<>>
    /\ Top.ip = Len(TopFunction)
    /\ Top.skip_count = 0
    /\ Len(TopFunction) >= 3
    /\ \E i \in 0..(Top.ip - 3) :
         /\ TopFunction[i + 1].kind \in BranchKinds
         /\ i + TopFunction[i + 1].n + 1 = Top.ip - 1
         /\ TopFunction[i + 1].kind = "BranchZero"
         /\ \A r \in 0..63 : Top.regs[r] = 0

\* C4: Runner::step terminates: bodies run front to back, and no call leads
\* back into a function that is already on the call chain.
C4_StepTerminates ==
    /\ [](NoRepeatOnStack /\ Len(stack) < MaxDepth /\ panic = "none")
    /\ [][phase = "running" /\ phase' = "running" /\ Len(stack') = Len(stack)
            => Top'.ip = Top.ip + 1]_vars
    /\ [](phase = "running" => <>(phase = "done"))

\* The second step has returned after calls nested two deep.
C4_Witness ==
    /\ phase = "done"
    /\ steps = MaxSteps
    /\ \E f \in Callees(0) : Callees(f) # {}

\* The decoding of the branch word at (f, i) as the claims state it.
MaxOffsetAt(f, i) == Len(functions[f + 1]) - i - 1
BranchWordAt(f, i) == WordOpAt(f, i) \in {"BRANCH_CMP", "BRANCH_ZERO", "BRANCH_NON_ZERO"}
BranchNops ==
    Compiled =>
      \A f \in FuncIds : \A i \in Offsets(f) :
        BranchWordAt(f, i) =>
          IF MaxOffsetAt(f, i) <= 1 \/ WordImmAt(f, i) % MaxOffsetAt(f, i) = 0
          THEN InstAt(f, i) = Nop
          ELSE InstAt(f, i).kind \in BranchKinds

\* C8 (as amended): for a branch word at in-function index i with immediate
\* imm and max_offset = instruction_count - i - 1, the instruction executed
\* next after the branch is taken is the one at index
\* i + (imm mod max_offset) + 1; the word is a nop if max_offset <= 1 or
\* imm mod max_offset = 0.
C8_BranchTarget ==
    /\ []BranchNops
    /\ [][(TakenBranch =>
              /\ Len(stack') = Len(stack)
              /\ ResumeIndex(Top') =
                   Top.ip + (WordImmAt(Top.idx, Top.ip) % MaxOffsetAt(Top.idx, Top.ip)) + 1)
          /\ (Skipping =>
              /\ Len(stack') = Len(stack)
              /\ ResumeIndex(Top') = ResumeIndex(Top))]_vars

\* C8 as stated: the instruction executed next after a taken branch is the
\* one at index i + (imm mod max_offset).
C8_Original ==
    /\ []BranchNops
    /\ [][(TakenBranch =>
              /\ Len(stack') = Len(stack)
              /\ ResumeIndex(Top') =
                   Top.ip + (WordImmAt(Top.idx, Top.ip) % MaxOffsetAt(Top.idx, Top.ip)))
          /\ (Skipping =>
              /\ Len(stack') = Len(stack)
              /\ ResumeIndex(Top') = ResumeIndex(Top))]_vars

\* The instruction at index 3 is dispatched after the branch at index 0
\* (imm 5, max_offset 3, offset 2) was taken and two instructions skipped;
\* the function also holds a branch word without room, a nop.
C8_Witness ==
    /\ Dispatching
    /\ Top.ip = 3
    /\ Len(TopFunction) = 4
    /\ TopFunction[1].kind = "BranchZero"
    /\ WordImmAt(Top.idx, 0) = 5
    /\ TopFunction[1].n = 2
    /\ \A r \in 0..63 : Top.regs[r] = 0
    /\ BranchWordAt(Top.idx, 3)
    /\ TopFunction[4] = Nop

\* C9: a taken branch with offset k makes the interpreter pass over the next
\* k instructions of the function without effect (no call, no evaluation of
\* a branch, no store), a branch that is not taken skips nothing, and Gt and
\* Lt compare the registers as signed integers.
C9_SkipWithoutEffect ==
    [][(Skipping =>
          /\ stack' = SetTop([Top EXCEPT !.ip = @ + 1, !.skip_count = @ - 1])
          /\ memory' = memory
          /\ phase' = phase
          /\ panic' = panic)
       /\ (Dispatching /\ CurInst.kind \in BranchKinds =>
          /\ stack' = SetTop([Top EXCEPT
                                !.ip = @ + 1,
                                !.skip_count = IF SignedCondition(CurInst, Top.regs)
                                               THEN CurInst.n ELSE 0])
          /\ memory' = memory)]_vars

\* A store is being skipped after branch_cmp Gt found 0 > -1.
C9_Witness ==
    /\ Skipping
    /\ CurInst.kind = "MemStore"
    /\ Top.ip >= 1
    /\ TopFunction[Top.ip].kind = "BranchCmp"
    /\ TopFunction[Top.ip].ck = "Gt"
    /\ Top.regs[TopFunction[Top.ip].r[1]] = 0
    /\ Top.regs[TopFunction[Top.ip].r[2]] = -1

\* C10: at the start of every invocation of a function, the entry function
\* of each step and every callee, all 64 registers are 0.
C10_RegistersZeroAtEntry ==
    \A j \in 1..Len(stack) :
      stack[j].ip = 0 =>
        /\ DOMAIN stack[j].regs = 0..63
        /\ \A r \in 0..63 : stack[j].regs[r] = 0

\* In the second step the callee is invoked for the second time by a
\* caller whose register 0 is not 0; the callee increments its register 0.
C10_Witness ==
    /\ phase = "running"
    /\ steps = MaxSteps
    /\ Len(stack) = 2
    /\ Top.ip = 0
    /\ TopFunction[1].kind = "IntInc"
    /\ stack[1].ip = 3
    /\ functions[1][2].kind = "Call"
    /\ functions[1][3].kind = "Call"
    /\ stack[1].regs[0] = 1

-----------------------------------------------------------------------------
(* Properties of the Jit *)

\* The panics of RegAllocations::run and of the State methods it calls.
RegAllocPanics ==
    { "alloc_stack: position(Option::is_none).unwrap()",
      "spill_reg: take().unwrap()",
      "unspill: active_stack[stack_idx].unwrap()",
      "unspill: max_by_key(..).unwrap()",
      "run: longest_active_reg().unwrap()" }

\* Both Runners have completed the same number of steps and neither runs.
BothStepped ==
    /\ phase = "done"
    /\ jphase = "done"
    /\ jsteps = steps

\* C1: when the Runner of the Interpreter and the Runner of the Jit have each
\* completed the same steps on equal initial memory, the two memory slices
\* are identical.
C1_Original == BothStepped => memory = jmemory

\* C3: compiling with the Jit never panics inside RegAllocations::run: for
\* every function of the decoder alloc_stack finds a free stack slot (also
\* when spill_reg calls it from unspill) and unspill finds a register to
\* evict.
C3_Original == jpanic \notin RegAllocPanics

\* The slice `mem` with its last n elements set to 0.
ZeroOutput(mem, n) ==
    [ k \in 1..Len(mem) |-> IF k > Len(mem) - n THEN 0 ELSE mem[k] ]

\* A call of step of the Interpreter Runner, or of the Jit Runner, that
\* passed its assertion and is about to run the entry function.
InterpreterStepStarts == steps' = steps + 1 /\ phase' = "running"
JitStepStarts == jsteps' = jsteps + 1 /\ jphase' = "running"

\* C11: every call of step, on the Runner of the Interpreter and on the
\* Runner of the Jit, sets exactly the last output_size elements of the slice
\* to 0 before the first instruction runs, output_size being the value given
\* to compile, and changes no other element.
C11_Original ==
    [][/\ InterpreterStepStarts => memory' = ZeroOutput(memory, params.output_size)
       /\ JitStepStarts => jmemory' = ZeroOutput(jmemory, params.output_size)]_vars

\* The slice is shorter than the sizes given to compile require.
ShortSlice(mem) == Len(mem) < params.memory_size + params.input_size + params.output_size

\* C12: when the slice handed to step is shorter than memory_size +
\* input_size + output_size, step fails on its assertion before anything
\* happens: no element of the slice changes (the output region is not
\* zeroed) and no instruction runs, on the Interpreter and on the Jit.
C12_ShortSliceAsserts ==
    [][/\ ShortSlice(memory) =>
            /\ memory' = memory
            /\ stack' = stack
            /\ steps' # steps => phase' = "panic" /\ panic' = "step: memory slice too small"
       /\ ShortSlice(jmemory) =>
            /\ jmemory' = jmemory
            /\ machine' = machine
            /\ jsteps' # jsteps =>
                 /\ jphase' = "panic"
                 /\ jpanic' = "step: assert!(memory_size + input_size + output_size <= len)"]_vars

\* Both Runners were compiled for 4 elements and stepped once on a slice of
\* 3: both calls failed and the slices are as the host left them.
C12_Witness ==
    /\ steps = 1
    /\ jsteps = 1
    /\ phase = "panic"
    /\ panic = "step: memory slice too small"
    /\ jphase = "panic"
    /\ jpanic = "step: assert!(memory_size + input_size + output_size <= len)"
    /\ memory = << 5, 6, 7 >>
    /\ jmemory = << 5, 6, 7 >>
    /\ stack = <<>>
    /\ machine = MachineIdle

\* The size given to compile for a bank, and the bank of a load or store word.
BankSize(bank) ==
    CASE bank = "Memory" -> params.memory_size
      [] bank = "Input" -> params.input_size
      [] OTHER -> params.output_size

MemoryOps == {"MEM_LOAD", "INPUT_LOAD", "MEM_STORE", "OUTPUT_STORE"}

BankOfOp(op) ==
    CASE op \in {"MEM_LOAD", "MEM_STORE"} -> "Memory"
      [] op = "INPUT_LOAD" -> "Input"
      [] OTHER -> "Output"

SliceLength == params.memory_size + params.input_size + params.output_size

\* C13: every load or store the decoder emits carries the address
\* imm mod bank_size, which is smaller than the size of its bank, a load or
\* store word whose bank is empty decodes to nop, and the element of the
\* slice an emitted load or store accesses lies below memory_size +
\* input_size + output_size.
C13_AddressesInRange ==
    Compiled =>
      \A f \in FuncIds : \A i \in Offsets(f) :
        /\ InstAt(f, i).kind \in {"MemLoad", "MemStore"} =>
             /\ WordOpAt(f, i) \in MemoryOps
             /\ InstAt(f, i).bank = BankOfOp(WordOpAt(f, i))
             /\ InstAt(f, i).n = WordImmAt(f, i) % BankSize(InstAt(f, i).bank)
             /\ InstAt(f, i).n < BankSize(InstAt(f, i).bank)
             /\ SliceIndex(InstAt(f, i), params) < SliceLength
        /\ WordOpAt(f, i) \in MemoryOps /\ BankSize(BankOfOp(WordOpAt(f, i))) = 0 =>
             InstAt(f, i) = Nop

\* A compiled code with a store word of immediate 49217 into the memory bank
\* of size 2: its address is 1.
C13_Witness ==
    /\ phase = "ready"
    /\ params.memory_size = 2
    /\ \E i \in Offsets(0) :
         /\ WordOpAt(0, i) = "MEM_STORE"
         /\ WordImmAt(0, i) = 49217
         /\ InstAt(0, i).kind = "MemStore"
         /\ InstAt(0, i).n = 1

\* The input region of a slice laid out as memory, input, output.
InputRegion(mem) ==
    SubSeq(mem, params.memory_size + 1, params.memory_size + params.input_size)

\* No emitted store addresses the input bank and no emitted load the output
\* bank.
BankPermissions ==
    Compiled =>
      \A f \in FuncIds : \A i \in Offsets(f) :
        /\ InstAt(f, i).kind = "MemStore" => InstAt(f, i).bank \in {"Memory", "Output"}
        /\ InstAt(f, i).kind = "MemLoad" => InstAt(f, i).bank \in {"Memory", "Input"}

\* C14: the decoder emits stores only into Memory or Output and loads only
\* from Memory or Input, and through any sequence of step calls, on either
\* Runner, the input region of the slice keeps the values of the host.
C14_Original ==
    /\ []BankPermissions
    /\ [][/\ InputRegion(memory') = InputRegion(memory)
          /\ InputRegion(jmemory') = InputRegion(jmemory)]_vars

\* The instruction kind each opcode is emitted as when it is not degraded,
\* in the order of OpNames; and the opcodes that can degrade to nop.
KindNames ==
    << "-", "Call", "IntAdd", "IntSub", "IntMul", "IntMulHigh",
       "IntMulHighUnsigned", "IntNeg", "IntAbs", "IntInc", "IntDec",
       "IntMin", "IntMax", "BitSwap", "BitOr", "BitAnd", "BitXor",
       "BitNot", "BitShiftLeft", "BitShiftRight", "BitRotateLeft", "BitRotateRight",
       "BitSelect", "BitPopcnt", "BitReverse", "BranchCmp", "BranchZero",
       "BranchNonZero", "MemLoad", "MemLoad", "MemStore", "MemStore" >>

Degradable ==
    {"CALL", "BRANCH_CMP", "BRANCH_ZERO", "BRANCH_NON_ZERO"} \cup MemoryOps

\* C15: the instruction vector of every function has one element per word
\* of the function, element p being the instruction of the opcode of the
\* p-th word or, for a degraded call, branch, load or store, a nop; so the
\* offset of a branch at index i counts words: 1 <= offset and
\* i + offset + 1 <= instruction_count - 1.
C15_IndicesStable ==
    Compiled =>
      \A f \in FuncIds :
        /\ Len(functions[f + 1]) = funcs[f + 1].instruction_count
        /\ \A i \in Offsets(f) :
             /\ \/ InstAt(f, i).kind = KindNames[OpIndex(WordOpAt(f, i))]
                \/ InstAt(f, i) = Nop /\ WordOpAt(f, i) \in Degradable
             /\ InstAt(f, i).kind \in BranchKinds =>
                  /\ InstAt(f, i).n >= 1
                  /\ i + InstAt(f, i).n + 1 <= funcs[f + 1].instruction_count - 1

\* A compiled function in which a degraded word is a nop at its own index
\* and the int_inc word after it is the next element.
C15_Witness ==
    /\ phase = "ready"
    /\ \E i \in Offsets(0) :
         /\ i >= 1
         /\ i + 1 \in Offsets(0)
         /\ WordOpAt(0, i) \in Degradable
         /\ InstAt(0, i) = Nop
         /\ WordOpAt(0, i + 1) = "INT_INC"
         /\ InstAt(0, i + 1).kind = "IntInc"

\* Word k of the code (1-based) is an END_FUNC word: its selector is below
\* the weight of END_FUNC.
IsEndFunc(k) == Kind(code[k]) < params.freq[1]

\* The positions at which a maximal run of words other than END_FUNC starts.
RunStarts ==
    { k \in 1..Len(code) : ~IsEndFunc(k) /\ (k = 1 \/ IsEndFunc(k - 1)) }

\* C16: the functions are exactly the maximal non-empty runs of consecutive
\* words other than END_FUNC, in source order; no END_FUNC word belongs to a
\* function; a code without such a run yields exactly one empty function 0.
C16_FunctionPartition ==
    Compiled =>
      /\ FuncCount >= 1
      /\ IF RunStarts = {}
         THEN funcs = << NewFunction(0) >> /\ functions = << <<>> >>
         ELSE /\ FuncCount = Cardinality(RunStarts)
              /\ \A f \in FuncIds :
                   LET first == funcs[f + 1].first_instruction
                       count == funcs[f + 1].instruction_count
                   IN  /\ count >= 1
                       /\ first + 1 \in RunStarts
                       /\ \A k \in (first + 1)..(first + count) : ~IsEndFunc(k)
                       /\ first + count = Len(code) \/ IsEndFunc(first + count + 1)
                       /\ Len(functions[f + 1]) = count
                       /\ f + 1 \in FuncIds =>
                            funcs[f + 2].first_instruction > first + count

\* A compiled code that starts with an END_FUNC word and holds two adjacent
\* END_FUNC words between its two functions.
C16_Witness ==
    /\ phase = "ready"
    /\ FuncCount = 2
    /\ IsEndFunc(1)
    /\ funcs[1].first_instruction = 1
    /\ IsEndFunc(funcs[1].first_instruction + funcs[1].instruction_count + 1)
    /\ IsEndFunc(funcs[1].first_instruction + funcs[1].instruction_count + 2)
    /\ funcs[2].first_instruction = funcs[1].first_instruction + funcs[1].instruction_count + 2

\* The first selector of the interval of each opcode of the table F, in the
\* order of OpNames.
IntervalStarts(F) == [ k \in 1..Len(OpNames) |-> SumSeq(SubSeq(F, 1, k - 1)) ]

\* The selector s resolves under F to an opcode whose interval
\* [start, start + weight) holds s.
ResolvesIntoInterval(s, F, starts) ==
    /\ OpOf(s, F) # "PANIC"
    /\ starts[OpIndex(OpOf(s, F))] <= s
    /\ s < starts[OpIndex(OpOf(s, F))] + F[OpIndex(OpOf(s, F))]

\* Every 16-bit selector resolves under the table F to the opcode whose
\* interval holds it.
SelectorsPartitioned(F) ==
    \A s \in 0..65535 : ResolvesIntoInterval(s, F, IntervalStarts(F))

\* The code is the single word of the last selector, compiled without
\* levels and banks: one state for each table.
LastSelectorAlone ==
    /\ phase = "ready"
    /\ Len(code) = 1
    /\ Kind(code[1]) = 65535
    /\ params.lowest_function_level = 0
    /\ params.memory_size = 0

\* C17: under a table of sum 65536 every 16-bit selector resolves to exactly
\* one opcode, the one whose interval of cumulative weights holds it; so
\* opcode i is selected by exactly weight[i] consecutive selectors and an
\* opcode of weight 0 by none.  The words of the compiled code resolve so,
\* and with the word of the last selector all the selectors of its table.
C17_SelectorPartition ==
    /\ sum_delta(params.freq) = 0
    /\ LastSelectorAlone => SelectorsPartitioned(params.freq)
    /\ Compiled =>
         \A f \in FuncIds : \A i \in Offsets(f) :
           /\ ResolvesIntoInterval(Kind(FuncWord(code, funcs[f + 1], i)), params.freq,
                                   IntervalStarts(params.freq))
           /\ Freq(params.freq, WordOpAt(f, i)) > 0

\* A compiled code whose last word carries the last selector of an opcode
\* that follows opcodes of weight 0 in the table.
C17_Witness ==
    /\ phase = "ready"
    /\ params.freq = ControlFrequencies
    /\ \E i \in Offsets(0) :
         /\ WordOpAt(0, i) = "INT_INC"
         /\ Kind(FuncWord(code, funcs[1], i)) = 16384 + 8192 - 1
         /\ InstAt(0, i).kind = "IntInc"

\* C18: the default table sums to exactly 65536, so sum_delta of the default
\* table is 0; each default weight is a u16 and the table has one weight for
\* each opcode of the chain, so the i32 sum of sum_delta does not wrap.
C18_DefaultSumDelta ==
    /\ Len(DefaultFrequencies) = Len(OpNames)
    /\ \A k \in 1..Len(OpNames) : DefaultFrequencies[k] \in 0..65535
    /\ SumSeq(DefaultFrequencies) = 65536
    /\ sum_delta(DefaultFrequencies) = 0
    /\ params.freq = DefaultFrequencies => sum_delta(params.freq) = 0

\* A code compiled under the default table whose word carries the selector
\* 65535, the last one the weights cover, and resolves to the last opcode.
C18_Witness ==
    /\ phase = "ready"
    /\ params.freq = DefaultFrequencies
    /\ params.output_size > 0
    /\ \E i \in Offsets(0) :
         /\ Kind(FuncWord(code, funcs[1], i)) = 65535
         /\ WordOpAt(0, i) = "OUTPUT_STORE"
         /\ InstAt(0, i).kind = "MemStore"

RECURSIVE TwoTo(_)
TwoTo(n) == IF n = 0 THEN 1 ELSE 2 * TwoTo(n - 1)

\* y is x shifted right by n with zero fill, x read as a u64 and y as an
\* i64: the sign bit of y is clear once n >= 1, and y is x / 2^n rounded
\* down, plus 2^(64 - n) for a negative x (compared where that fits).
ZeroFillShift(x, n, y) ==
    /\ n >= 1 => y >= 0
    /\ (x >= 0 \/ n = 0) => y = ShiftRightArith(x, n)
    /\ (x < 0 /\ n >= 34) => y = TwoTo(64 - n) + ShiftRightArith(x, n)

\* The Interpreter executes a BitShiftRight.
InterpreterShifts ==
    /\ AtInstruction
    /\ Top.skip_count = 0
    /\ CurInst.kind = "BitShiftRight"
    /\ Len(stack') = Len(stack)
    /\ stack'[Len(stack)].ip = Top.ip + 1

\* The generated code of a BitShiftRight runs.
JitShifts ==
    /\ jphase = "running"
    /\ phase # "running"
    /\ machine.frames # <<>>
    /\ JitTop.pc <= Len(JitCode)
    /\ JitCode[JitTop.pc].kind = "BitShiftRight"
    /\ Len(machine'.frames) = Len(machine.frames)
    /\ machine'.frames[Len(machine.frames)].pc = JitTop.pc + 1

\* The value the machine code of the instruction at JitTop.pc reads from
\* its k-th use: the moves of the instruction's actions come first.
JitUse(k) ==
    operand(run_actions(machine, JitCode[JitTop.pc].actions, JitTop.entry + 1),
            JitCode[JitTop.pc].uses[k])

\* C19: shift_right(dst, src, n) with 0 <= n <= 63 leaves in dst the
\* zero-fill right shift by n of src read as a u64, on the Interpreter and
\* in the code the Jit generates.
C19_Original ==
    [][/\ InterpreterShifts =>
            ZeroFillShift(Top.regs[CurInst.r[2]], CurInst.n,
                          stack'[Len(stack)].regs[CurInst.r[1]])
       /\ JitShifts =>
            ZeroFillShift(JitUse(1), JitCode[JitTop.pc].n,
                          operand(machine', JitCode[JitTop.pc].defs[1]))]_vars

\* The Interpreter half of the claim alone.
C19_InterpreterZeroFill ==
    [][InterpreterShifts =>
            ZeroFillShift(Top.regs[CurInst.r[2]], CurInst.n,
                          stack'[Len(stack)].regs[CurInst.r[1]])]_vars

\* The Jit half of the claim alone.
C19_JitZeroFill ==
    [][JitShifts =>
            ZeroFillShift(JitUse(1), JitCode[JitTop.pc].n,
                          operand(machine', JitCode[JitTop.pc].defs[1]))]_vars

\* What both back-ends do: the sign-extending shift of the i64.
C19_SignExtending ==
    [][/\ InterpreterShifts =>
            stack'[Len(stack)].regs[CurInst.r[1]] =
                ShiftRightArith(Top.regs[CurInst.r[2]], CurInst.n)
       /\ JitShifts =>
            operand(machine', JitCode[JitTop.pc].defs[1]) =
                ShiftRightArith(JitUse(1), JitCode[JitTop.pc].n)]_vars

\* (mask & a) | (!mask & b)
Selected(mask, a, b) == BitOr(BitAnd(mask, a), BitAnd(BitNot(mask), b))

\* The Interpreter executes a BitSelect.
InterpreterSelects ==
    /\ AtInstruction
    /\ Top.skip_count = 0
    /\ CurInst.kind = "BitSelect"
    /\ Len(stack') = Len(stack)
    /\ stack'[Len(stack)].ip = Top.ip + 1

\* The generated code of a BitSelect runs.
JitSelects ==
    /\ jphase = "running"
    /\ phase # "running"
    /\ machine.frames # <<>>
    /\ JitTop.pc <= Len(JitCode)
    /\ JitCode[JitTop.pc].kind = "BitSelect"
    /\ Len(machine'.frames) = Len(machine.frames)
    /\ machine'.frames[Len(machine.frames)].pc = JitTop.pc + 1

\* The Interpreter half: dst holds (mask & a) | (!mask & b) afterwards.
C20_InterpreterSelect ==
    [][InterpreterSelects =>
          stack'[Len(stack)].regs[CurInst.r[1]] =
              Selected(Top.regs[CurInst.r[2]], Top.regs[CurInst.r[3]],
                       Top.regs[CurInst.r[4]])]_vars

\* The Jit half: the destination holds (mask & a) | (!mask & b) afterwards.
C20_JitSelect ==
    [][JitSelects =>
          operand(machine', JitCode[JitTop.pc].defs[1]) =
              Selected(JitUse(1), JitUse(2), JitUse(3))]_vars

\* C20: on the Interpreter and on the Jit, bit_select(dst, mask, a, b)
\* leaves (mask & a) | (!mask & b) in dst.
C20_Original ==
    [][/\ InterpreterSelects =>
            stack'[Len(stack)].regs[CurInst.r[1]] =
                Selected(Top.regs[CurInst.r[2]], Top.regs[CurInst.r[3]],
                         Top.regs[CurInst.r[4]])
       /\ JitSelects =>
            operand(machine', JitCode[JitTop.pc].defs[1]) =
                Selected(JitUse(1), JitUse(2), JitUse(3))]_vars

\* What the generated code leaves: ((mask ^ a) & b) ^ a, the bits of mask
\* where b is set and the bits of a elsewhere.
C20_JitSelectsByB ==
    [][JitSelects =>
          operand(machine', JitCode[JitTop.pc].defs[1]) =
              Selected(JitUse(3), JitUse(1), JitUse(2))]_vars

\* The destination of a BitSelect is neither its second nor its third use
\* (the debug_assert of line 312).
C20_DestinationApart ==
    \A f \in 1..Len(jfunctions) : \A k \in 1..Len(jfunctions[f].instructions) :
        jfunctions[f].instructions[k].kind = "BitSelect" =>
            /\ jfunctions[f].instructions[k].defs[1] # jfunctions[f].instructions[k].uses[2]
            /\ jfunctions[f].instructions[k].defs[1] # jfunctions[f].instructions[k].uses[3]

\* The Interpreter executes a MemLoad or a MemStore inside the slice.
InterpreterAccesses(kind) ==
    /\ AtInstruction
    /\ Top.skip_count = 0
    /\ CurInst.kind = kind
    /\ SliceIndex(CurInst, params) < Len(memory)
    /\ Len(stack') = Len(stack)
    /\ stack'[Len(stack)].ip = Top.ip + 1

\* The generated code of a MemLoad or a MemStore runs.
JitAccesses(kind) ==
    /\ jphase = "running"
    /\ phase # "running"
    /\ machine.frames # <<>>
    /\ JitTop.pc <= Len(JitCode)
    /\ JitCode[JitTop.pc].kind = kind
    /\ Len(machine'.frames) = Len(machine.frames)
    /\ machine'.frames[Len(machine.frames)].pc = JitTop.pc + 1

\* The Interpreter half: a load copies the element into the register and
\* leaves the slice alone; a store copies the register into the element and
\* leaves every other element alone.
InterpreterRoundTrip ==
    /\ InterpreterAccesses("MemLoad") =>
         /\ stack'[Len(stack)].regs[CurInst.r[1]] = memory[SliceIndex(CurInst, params) + 1]
         /\ memory' = memory
    /\ InterpreterAccesses("MemStore") =>
         memory' = [memory EXCEPT ![SliceIndex(CurInst, params) + 1] = Top.regs[CurInst.r[1]]]

\* The Jit half, on the generated code.
JitRoundTrip ==
    /\ JitAccesses("MemLoad") =>
         /\ operand(machine', JitCode[JitTop.pc].defs[1]) = jmemory[JitCode[JitTop.pc].n + 1]
         /\ jmemory' = jmemory
    /\ JitAccesses("MemStore") =>
         jmemory' = [jmemory EXCEPT ![JitCode[JitTop.pc].n + 1] = JitUse(1)]

\* The code of the test mem has run to its end on the Interpreter / the Jit.
MemTestCode == << WLoad(0, 0), WStore(0, 1) >>

\* C21: on the Interpreter and on the Jit, mem_load(r, x) followed by
\* mem_store(y, r) leaves in memory[y] the value memory[x] held, and changes
\* no other element of the slice.
C21_Original ==
    /\ [](code = MemTestCode /\ phase = "done" => memory[2] = memory[1])
    /\ [](code = MemTestCode /\ jphase = "done" => jmemory[2] = jmemory[1])
    /\ [][InterpreterRoundTrip /\ JitRoundTrip]_vars

\* The Interpreter half of the claim alone.
C21_InterpreterRoundTrip ==
    /\ [](code = MemTestCode /\ phase = "done" => memory[2] = memory[1])
    /\ [][InterpreterRoundTrip]_vars

\* What a fresh Compiler of the Runner's generator returns for its code.
FreshFunctions(r) ==
    IF r.gen = "Interpreter"
    THEN compile_with_frequencies(r.code, r.params).functions
    ELSE [ f \in 1..Len(compile_with_frequencies(r.code, r.params).functions) |->
             jit_function(compile_with_frequencies(r.code, r.params).functions[f],
                          r.params) ]

\* C22: a Compiler that compiled other codes before returns for a code the
\* Runner a fresh Compiler returns, with the same functions and
\* instructions, and a later compile changes no Runner returned earlier.
C22_ReuseStateless ==
    /\ [](\A k \in 1..Len(compiler.runners) :
             compiler.runners[k].functions = FreshFunctions(compiler.runners[k]))
    /\ [][\A k \in 1..Len(compiler.runners) :
             compiler.runners'[k] = compiler.runners[k]]_vars

\* The same Compiler compiled a code of three functions and then, on both
\* generators in turn, a code with fewer and shorter functions.
C22_Witness ==
    /\ Len(compiler.runners) = 2
    /\ Len(compiler.runners[1].functions) = 3
    /\ compiler.runners[1].gen = compiler.runners[2].gen
    /\ compiler.runners[2].code = << WInc(0) >>
    /\ Len(compiler.runners[2].functions) = 1
    /\ Len(compiler.igen) \in {0, 1}

\* The successors of block b (0-based) of a function: exit and branch_exit.
Successors(blocks, b) ==
    { x \in { blocks[b + 1].exit, blocks[b + 1].branch_exit } : x # INVALID }

\* The blocks that end in a branch instruction.
EndsInBranch(blocks, b) ==
    /\ blocks[b + 1].instructions # <<>>
    /\ blocks[b + 1].instructions[Len(blocks[b + 1].instructions)].kind \in BranchKinds

\* A proxy block: one predecessor, one jump, one valid successor.
IsProxy(blocks, x) ==
    /\ x \in 0..(Len(blocks) - 1)
    /\ Len(blocks[x + 1].predecessors) = 1
    /\ blocks[x + 1].instructions = << IrJump >>
    /\ blocks[x + 1].exit \in 0..(Len(blocks) - 1)
    /\ blocks[x + 1].branch_exit = INVALID

\* No critical edge in the blocks of one function.
NoCriticalEdge(blocks) ==
    \A b \in 0..(Len(blocks) - 1) :
        /\ EndsInBranch(blocks, b) =>
             /\ Cardinality(Successors(blocks, b)) = 2
             /\ \A x \in Successors(blocks, b) :
                    /\ IsProxy(blocks, x)
                    /\ blocks[x + 1].predecessors = << b >>
        /\ ~EndsInBranch(blocks, b) => blocks[b + 1].branch_exit = INVALID
        /\ b # 0 => blocks[b + 1].predecessors # <<>>
        /\ \A k \in 1..Len(blocks[b + 1].predecessors) :
               /\ blocks[b + 1].predecessors[k] < b
               /\ b \in Successors(blocks, blocks[b + 1].predecessors[k])
        /\ \A x \in Successors(blocks, b) :
               \E k \in 1..Len(blocks[x + 1].predecessors) :
                   blocks[x + 1].predecessors[k] = b

\* C23: after finalize the control-flow graph of every function has no
\* critical edge: a block that ends in a branch has two successors, both
\* proxies with that block as only predecessor and one valid successor;
\* every block but block 0 has a predecessor, and predecessors come first.
C23_NoCriticalEdge ==
    \A f \in 1..Len(jir) :
        /\ NoCriticalEdge(jir[f].built)
        /\ NoCriticalEdge(jir[f].renamed.blocks)

\* A function in which two branches land on the same instruction, the block
\* after the second branch: that block has three predecessors, all proxies.
C23_Witness ==
    /\ jphase = "ready"
    /\ Len(jir) = 1
    /\ \E b \in 0..(Len(jir[1].built) - 1) :
         /\ Len(jir[1].built[b + 1].predecessors) = 3
         /\ \A k \in 1..3 : IsProxy(jir[1].built, jir[1].built[b + 1].predecessors[k])

\* The blocks among 0..k that a path from block 0 reaches without passing
\* through block d (predecessors come before their block).
RECURSIVE ReachUpTo(_, _, _)
ReachUpTo(blocks, d, k) ==
    IF k = 0 THEN (IF d = 0 THEN {} ELSE {0})
    ELSE LET before == ReachUpTo(blocks, d, k - 1)
         IN  IF k # d /\ \E q \in 1..Len(blocks[k + 1].predecessors) :
                             blocks[k + 1].predecessors[q] \in before
             THEN before \cup {k}
             ELSE before

\* avoiding[d + 1]: the blocks reached from block 0 around block d.
Avoiding(blocks) ==
    [ d \in 1..Len(blocks) |-> ReachUpTo(blocks, d - 1, Len(blocks) - 1) ]

\* Block d dominates block b: every path from block 0 to b holds d.
Dominates(avoiding, d, b) == d = b \/ b \notin avoiding[d + 1]

StrictDominators(avoiding, b) ==
    { d \in 0..(Len(avoiding) - 1) : d # b /\ Dominates(avoiding, d, b) }

\* d is the immediate dominator of b: the strict dominator of b that every
\* strict dominator of b dominates.
IsImmediateDominator(avoiding, d, b) ==
    /\ d \in StrictDominators(avoiding, b)
    /\ \A e \in StrictDominators(avoiding, b) : Dominates(avoiding, e, d)

\* doms is valid everywhere, holds the immediate dominators, and one more
\* pass of the loop over the blocks changes nothing.
ImmediateDominators(blocks, doms, avoiding) ==
    /\ doms[1] = 0
    /\ \A b \in 1..(Len(blocks) - 1) :
          /\ doms[b + 1] \in 0..(Len(blocks) - 1)
          /\ IsImmediateDominator(avoiding, doms[b + 1], b)
          /\ first_valid_predecessor(blocks[b + 1].predecessors,
                                     [ x \in 1..Len(blocks) |->
                                         IF x <= b THEN doms[x] ELSE INVALID ]) # INVALID
    /\ dominator_pass(blocks, 1, doms, FALSE).doms = doms

\* C24: the dominator loop of finalize ends with doms[b] the immediate
\* dominator of every block b >= 1 and doms[0] = 0, and the predecessor it
\* unwraps exists for every block.
C24_Dominators ==
    \A f \in 1..Len(jir) :
        ImmediateDominators(jir[f].built, jir[f].doms, Avoiding(jir[f].built))

\* A function with a block of several predecessors whose immediate
\* dominator is none of them.
C24_Witness ==
    /\ jphase = "ready"
    /\ \E f \in 1..Len(jir) : \E b \in 1..(Len(jir[f].built) - 1) :
         /\ Len(jir[f].built[b + 1].predecessors) >= 3
         /\ \A k \in 1..Len(jir[f].built[b + 1].predecessors) :
                jir[f].built[b + 1].predecessors[k] # jir[f].doms[b + 1]
         /\ jir[f].doms[b + 1] # 0


\* The dominance frontier of block x: the blocks with a predecessor that x
\* dominates which x does not strictly dominate.
DominanceFrontier(blocks, avoiding, x) ==
    { y \in 0..(Len(blocks) - 1) :
        /\ \E q \in 1..Len(blocks[y + 1].predecessors) :
              Dominates(avoiding, x, blocks[y + 1].predecessors[q])
        /\ ~ (x # y /\ Dominates(avoiding, x, y)) }

\* The iterated dominance frontier of the set defs: the least set that holds
\* the frontier of every block of defs and of every block of the set itself.
RECURSIVE IteratedFrontier(_, _, _, _)
IteratedFrontier(blocks, avoiding, defs, acc) ==
    LET next == UNION { DominanceFrontier(blocks, avoiding, x) : x \in defs \cup acc }
    IN  IF next = acc THEN acc ELSE IteratedFrontier(blocks, avoiding, defs, next)

\* The blocks that define register v as the emitter built them.
DefiningBlocks(blocks, v) ==
    { b \in 0..(Len(blocks) - 1) : v \in blocks[b + 1].var_def_mask }

ParamNames(block) == { block.params[k].name : k \in 1..Len(block.params) }

\* C25: after the block parameters are inserted, block b has register v
\* among its parameters exactly when b is in the iterated dominance frontier
\* of the blocks that define v, block 0 defines all 64 registers, and no
\* block lists a register twice.
C25_IteratedFrontier ==
    \A f \in 1..Len(jir) :
        LET blocks == jir[f].built
            avoiding == Avoiding(blocks)
        IN  /\ blocks[1].var_def_mask = 0..63
            /\ \A defs \in { DefiningBlocks(blocks, v) : v \in 0..63 } :
                  LET frontier == IteratedFrontier(blocks, avoiding, defs, {})
                  IN  \A v \in 0..63 : \A b \in 0..(Len(blocks) - 1) :
                         DefiningBlocks(blocks, v) = defs
                            => (v \in ParamNames(jir[f].with_params[b + 1])
                                   <=> b \in frontier)
            /\ \A b \in 0..(Len(blocks) - 1) :
                  /\ Cardinality(ParamNames(jir[f].with_params[b + 1])) =
                        Len(jir[f].with_params[b + 1].params)
                  /\ ParamNames(jir[f].renamed.blocks[b + 1]) =
                        ParamNames(jir[f].with_params[b + 1])
                  /\ Len(jir[f].renamed.blocks[b + 1].params) =
                        Len(jir[f].with_params[b + 1].params)

\* A block that receives a register as a parameter only through another
\* block that received it: no block that defines the register as built has
\* the block in its frontier.
C25_Witness ==
    /\ jphase = "ready"
    /\ \E f \in 1..Len(jir) : \E b \in 0..(Len(jir[f].built) - 1) :
         \E v \in ParamNames(jir[f].with_params[b + 1]) :
            /\ v \in ParamNames(jir[f].renamed.blocks[b + 1])
            /\ \A x \in DefiningBlocks(jir[f].built, v) :
                  b \notin DominanceFrontier(jir[f].built, Avoiding(jir[f].built), x)


\* The allocator states after each of the instructions lo..hi of flat, in
\* the order of the loop of RegAllocations::run.
RECURSIVE AllocatorStates(_, _, _, _, _)
AllocatorStates(ra, blocks, flat, lo, hi) ==
    IF lo > hi THEN <<>>
    ELSE IF lo = hi
    THEN << IF ra.panic # "none" THEN ra
            ELSE run_instruction(ra, blocks, flat[lo].b, flat[lo].inst, lo - 1) >>
    ELSE LET left == AllocatorStates(ra, blocks, flat, lo, (lo + hi) \div 2)
         IN  left \o AllocatorStates(left[Len(left)], blocks, flat,
                                     (lo + hi) \div 2 + 1, hi)

\* The states of the run that finalize starts on the renamed function.
RunStates(renamed) ==
    LET flat == flat_instructions(renamed.blocks, 0)
    IN  [flat |-> flat,
         states |-> AllocatorStates(
                        StateDefault(sort_and_truncate(
                            renamed.live_ranges,
                            instructions_start(renamed.blocks, Len(renamed.blocks)))),
                        renamed.blocks, flat, 1, Len(flat))]

Operands(inst) == inst.defs \o inst.uses

StackOperands(inst) == SelectSeq(Operands(inst), LAMBDA v : v.is_stack)

\* The instruction that the iteration pushed: not a Jump, not dropped.
Pushed(ra, func_inst) == func_inst.kind # "Jump" /\ ~ra.inst.dead

\* After the operands of an instruction are resolved, each of its variables
\* is still at the place recorded for it in defs or uses.
OperandsInPlace(ra, func_inst) ==
    \A k \in 1..Len(operands_of(func_inst)) :
        /\ live_vars_get(ra, operands_of(func_inst)[k].virt) # <<>>
        /\ live_vars_get(ra, operands_of(func_inst)[k].virt)[1].phys = Operands(ra.inst)[k]

\* C26: every instruction the allocator emits has at most one operand on the
\* stack, defs and uses counted together, and none when its kind does not
\* support a memory operand; and the unspill for a later operand leaves the
\* register chosen for an earlier operand of the instruction with it.
C26_StackOperands ==
    /\ \A f \in 1..Len(jfunctions) : \A k \in 1..Len(jfunctions[f].instructions) :
          /\ Len(StackOperands(jfunctions[f].instructions[k])) <= 1
          /\ ~supports_mem_operand(jfunctions[f].instructions[k].kind)
                => StackOperands(jfunctions[f].instructions[k]) = <<>>
    /\ jphase = "ready"
          => \A f \in 1..Len(jir) :
                LET run == RunStates(jir[f].renamed)
                IN  \A k \in 1..Len(run.flat) :
                        Pushed(run.states[k], run.flat[k].inst)
                           => OperandsInPlace(run.states[k], run.flat[k].inst)

\* An emitted instruction with one operand on the stack and another that an
\* unspill brought into a register from which it evicted a variable.
C26_Witness ==
    /\ jphase = "ready"
    /\ \E f \in 1..Len(jfunctions) : \E k \in 1..Len(jfunctions[f].instructions) :
         LET inst == jfunctions[f].instructions[k]
         IN  /\ Len(StackOperands(inst)) = 1
             /\ Len(Operands(inst)) >= 3
             /\ \E a \in 1..(Len(inst.actions) - 1) :
                   /\ inst.actions[a].op = "RegToStack"
                   /\ inst.actions[a + 1].op = "StackToReg"
                   /\ inst.actions[a + 1].x = inst.actions[a].y


Occupied(active) == { k \in DOMAIN active : active[k] # <<>> }

\* live_vars is injective, every entry names the place whose active range is
\* its variable, every occupied register or slot has its variable in
\* live_vars at that place, and the occupied registers are in used_regs_mask.
LiveVarsConsistent(ra) ==
    /\ \A j, k \in 1..Len(ra.live_vars) :
          j # k => /\ ra.live_vars[j].var # ra.live_vars[k].var
                   /\ ra.live_vars[j].phys # ra.live_vars[k].phys
    /\ \A k \in 1..Len(ra.live_vars) :
          LET e == ra.live_vars[k]
              active == IF e.phys.is_stack THEN ra.active_stack ELSE ra.active_reg
          IN  /\ e.phys.idx \in Occupied(active)
              /\ active[e.phys.idx][1].var = e.var
    /\ \A r \in Occupied(ra.active_reg) :
          /\ live_vars_get(ra, ra.active_reg[r][1].var) # <<>>
          /\ live_vars_get(ra, ra.active_reg[r][1].var)[1].phys = new_register(r)
    /\ \A q \in Occupied(ra.active_stack) :
          /\ live_vars_get(ra, ra.active_stack[q][1].var) # <<>>
          /\ live_vars_get(ra, ra.active_stack[q][1].var)[1].phys = new_stack(q)
    /\ Occupied(ra.active_reg) \subseteq ra.used_regs_mask

\* C27: after every iteration of the loop of RegAllocations::run no two live
\* variables share a register or a stack slot: live_vars is injective and
\* agrees with active_reg and active_stack in both directions, and every
\* register that holds a variable has its bit in used_regs_mask.
C27_LiveVarsConsistent ==
    \A f \in 1..Len(jir) :
        LET run == RunStates(jir[f].renamed)
        IN  \A k \in 1..Len(run.states) :
                run.states[k].panic = "none" => LiveVarsConsistent(run.states[k])

\* A run in which every register is occupied and variables are on the stack,
\* after an iteration that spilled a register to admit a live range.
C27_Witness ==
    /\ jphase = "ready"
    /\ \E f \in 1..Len(jir) :
         LET run == RunStates(jir[f].renamed)
         IN  \E k \in 1..Len(run.states) :
                /\ Occupied(run.states[k].active_reg) = 0..(REGISTER_COUNT - 1)
                /\ Cardinality(Occupied(run.states[k].active_stack)) >= 2
                /\ \E a \in 1..Len(run.states[k].inst.actions) :
                      run.states[k].inst.actions[a].op = "RegToStack"


Names(operands) == { operands[k].name : k \in 1..Len(operands) }

\* Kinds whose instruction acts on more than its destination.
HasSideEffect(kind) == kind \in BranchKinds \cup {"MemStore", "Call", "Return"}

\* At the point before instruction j of block b, the value in register v is
\* observed on some path: an instruction with a side effect reads it, or an
\* instruction reads it into a destination that is observed, before v is
\* defined again.
RECURSIVE Observed(_, _, _, _)
Observed(blocks, b, j, v) ==
    IF j > Len(blocks[b + 1].instructions)
    THEN \E s \in Successors(blocks, b) : Observed(blocks, s, 1, v)
    ELSE LET inst == blocks[b + 1].instructions[j]
         IN  IF /\ v \in Names(inst.src)
                /\ \/ HasSideEffect(inst.kind)
                   \/ \E d \in Names(inst.dst) : Observed(blocks, b, j + 1, d)
             THEN TRUE
             ELSE IF v \in Names(inst.dst) THEN FALSE
             ELSE Observed(blocks, b, j + 1, v)

\* The instructions of run.flat that the allocator dropped as dead.
Dropped(run) ==
    { k \in 1..Len(run.flat) :
        /\ run.states[k].panic = "none"
        /\ run.flat[k].inst.kind # "Jump"
        /\ run.states[k].inst.dead }

\* The place of instruction k of the flat order within its block.
PlaceInBlock(blocks, run, k) == k - instructions_start(blocks, run.flat[k].b)

\* No instruction with a side effect is dropped.
SideEffectsKept(run) ==
    \A k \in Dropped(run) : ~HasSideEffect(run.flat[k].inst.kind)

\* No dropped instruction defines a value that is observed.
DroppedUnobserved(blocks, run) ==
    \A k \in Dropped(run) :
        \A d \in Names(run.flat[k].inst.dst) :
            ~Observed(blocks, run.flat[k].b, PlaceInBlock(blocks, run, k) + 1, d)

\* C28 as stated: an instruction that the allocator drops defines no value
\* that is observed on a path, a path through a block parameter of a join
\* included, and no instruction with a side effect is dropped.
C28_Original ==
    \A f \in 1..Len(jir) :
        /\ SideEffectsKept(RunStates(jir[f].renamed))
        /\ DroppedUnobserved(jir[f].built, RunStates(jir[f].renamed))

\* What holds of the code: stores, calls, branches and returns are kept.
C28_SideEffectsKept ==
    \A f \in 1..Len(jir) : SideEffectsKept(RunStates(jir[f].renamed))

\* What holds of the code: a dropped instruction defines no value that is
\* read in the blocks dominated by its own block before the next definition;
\* the version it defines has no read.
C28_DroppedVersionUnread ==
    \A f \in 1..Len(jir) :
        LET run == RunStates(jir[f].renamed)
        IN  \A k \in Dropped(run) :
                \A j \in 1..Len(run.flat) :
                    \A q \in 1..Len(run.flat[j].inst.src) :
                        \A p \in 1..Len(run.flat[k].inst.dst) :
                            run.flat[j].inst.src[q] # run.flat[k].inst.dst[p]


\* The function [branch_non_zero r1 over one word; int_inc r0; mem_store r0]:
\* the increment in the arm is dropped although the store at the join reads
\* the register.
C28_IncrementDropped ==
    /\ jphase = "ready"
    /\ code = << WBranchNonZero(1, 1), WInc(0), WStore(0, 0) >>
    /\ \E run \in { RunStates(jir[1].renamed) } :
          \E k \in Dropped(run) : run.flat[k].inst.kind = "IntInc"
    /\ \E k \in 1..Len(jfunctions[1].instructions) :
          jfunctions[1].instructions[k].kind = "MemStore"
    /\ \A k \in 1..Len(jfunctions[1].instructions) :
          jfunctions[1].instructions[k].kind # "IntInc"


\* The Emitter of the Jit when the word at in-function index j is about to
\* be emitted, the pending targets for j resolved: the block that receives
\* the word, and whether the block starts with it.
JitBlockAt(insts, j, p) ==
    LET em == create_branch_targets(emit_function(EmitterNew, insts, 1, j, p))
    IN  [name |-> cur_block_name(em), starts |-> em.cur_block.instructions = <<>>]

\* The same for the Emitter of the light Jit.
LightBlockAt(insts, j, p) ==
    LET em == light_branch_targets_from(
                  light_emit_function(LightEmitterNew, insts, 1, j, p), 1)
    IN  [name |-> cur_block_name(em), starts |-> em.cur_block.instructions = <<>>]

\* The in-function indices of the branches of a function.
BranchIndices(insts) == { i \in 0..(Len(insts) - 1) : insts[i + 1].kind \in BranchKinds }

\* The in-function index at which the Interpreter resumes after the branch
\* at index i with offset k is taken: the iterator is past the branch and
\* skip_count = k instructions are passed over.
ResumesAt(i, k) == (i + 1) + k

\* The block that the taken edge of block b leads to through its proxy.
TakenTarget(blocks, b) == blocks[blocks[b + 1].branch_exit + 1].exit

\* No target is pending and every branch proxy exits to a block.
TargetsResolved(blocks, pending) ==
    /\ pending = <<>>
    /\ \A b \in 0..(Len(blocks) - 1) :
          blocks[b + 1].branch_exit # INVALID
             => /\ blocks[b + 1].branch_exit \in 0..(Len(blocks) - 1)
                /\ TakenTarget(blocks, b) \in 0..(Len(blocks) - 1)

\* The Emitter of jit/ir.rs wires every taken edge to the block that starts
\* at the index where the Interpreter resumes.
JitLandsAtResume ==
    \A f \in 1..Len(jir) :
        /\ TargetsResolved(jir[f].built, jir[f].pending)
        /\ \A i \in BranchIndices(functions[f]) :
              LET at == JitBlockAt(functions[f], ResumesAt(i, functions[f][i + 1].n), params)
              IN  /\ at.starts
                  /\ TakenTarget(jir[f].built, JitBlockAt(functions[f], i, params).name)
                        = at.name

\* The same for the Emitter of light_jit/ir.rs.
LightLandsAtResume ==
    \A f \in 1..Len(light) :
        /\ TargetsResolved(light[f].blocks, light[f].pending)
        /\ \A i \in BranchIndices(functions[f]) :
              LET at == LightBlockAt(functions[f], ResumesAt(i, functions[f][i + 1].n), params)
              IN  /\ at.starts
                  /\ TakenTarget(light[f].blocks, LightBlockAt(functions[f], i, params).name)
                        = at.name

\* C29 as stated: for a branch at in-function index i with offset k, the IR
\* builder of each Jit wires the taken edge, through the branch proxy, to the
\* block that starts at the instruction at which the Interpreter resumes, and
\* at the end no target is pending and every branch proxy has a valid exit.
C29_Original == JitLandsAtResume /\ LightLandsAtResume

\* What holds of the code: the builder of jit/ir.rs agrees with the
\* Interpreter.
C29_JitLandsAtResume == JitLandsAtResume

\* What holds of the code: the builder of light_jit/ir.rs resolves every
\* target, and wires the taken edge to the block that starts one instruction
\* before the one at which the Interpreter resumes.
C29_LightLandsOneBefore ==
    \A f \in 1..Len(light) :
        /\ TargetsResolved(light[f].blocks, light[f].pending)
        /\ \A i \in BranchIndices(functions[f]) :
              LET at == LightBlockAt(functions[f],
                                     ResumesAt(i, functions[f][i + 1].n) - 1, params)
              IN  /\ at.starts
                  /\ TakenTarget(light[f].blocks, LightBlockAt(functions[f], i, params).name)
                        = at.name

\* The failing input: the function [branch_non_zero r1 over one word;
\* int_inc r0; mem_store r0] in the light Jit, whose taken edge leads to the
\* block of the increment that the Interpreter skips.
C29_LightLandsOnSkipped ==
    /\ code = << WBranchNonZero(1, 1), WInc(0), WStore(0, 0) >>
    /\ light # <<>>
    /\ TakenTarget(light[1].blocks, 0) = 3
    /\ light[1].blocks[4].instructions[1].kind = "IntInc"
    /\ jir # <<>>
    /\ TakenTarget(jir[1].built, 0) = 4
    /\ jir[1].built[5].instructions[1].kind = "MemStore"


-----------------------------------------------------------------------------
(* Properties of step on sizes of the full width of u32 *)

\* The sum of the three sizes of r, formed without wrapping, is larger than len.
SliceTooSmall(r, len) ==
    LET lo == r.memory_size.lo + r.input_size.lo + r.output_size.lo
        hi == r.memory_size.hi + r.input_size.hi + r.output_size.hi + lo \div HALF
    IN  hi > 0 \/ lo % HALF > len

\* The sum of the three sizes of r is larger than u32::MAX.
SumLeavesU32(r) ==
    LET lo == r.memory_size.lo + r.input_size.lo + r.output_size.lo
    IN  r.memory_size.hi + r.input_size.hi + r.output_size.hi + lo \div HALF >= HALF

\* C30: step rejects every slice whose length is smaller than the sum
\* memory_size + input_size + output_size taken in the integers, also when
\* that sum is larger than u32::MAX, in the interpreter and in the Jit.
C30_Original ==
    /\ steps = 1 /\ SliceTooSmall(runner, Len(memory)) => phase = "panic"
    /\ jsteps = 1 /\ SliceTooSmall(jrunner, Len(jmemory)) => jphase = "panic"

\* A step that accepted a slice too small for the sizes did so on a sum
\* larger than u32::MAX, and a slice too small for a sum that stays within
\* u32 is rejected by the assertion.
C30_ExactBelowWrap ==
    /\ steps = 1 /\ SliceTooSmall(runner, Len(memory)) /\ ~SumLeavesU32(runner)
         => phase = "panic" /\ panic = "step: memory slice too small"
    /\ jsteps = 1 /\ SliceTooSmall(jrunner, Len(jmemory)) /\ ~SumLeavesU32(jrunner)
         => jphase = "panic" /\ jpanic = "step: memory slice too small"

\* The interpreter ran the program on a slice shorter than the sum of sizes
\* whose sum wraps around to a value that fits.
C30_WrappedAccepted ==
    /\ steps = 1
    /\ phase = "done"
    /\ SumLeavesU32(runner)
    /\ SliceTooSmall(runner, Len(memory))

\* The Jit did the same.
C30_JitWrappedAccepted ==
    /\ jsteps = 1
    /\ jphase = "done"
    /\ SumLeavesU32(jrunner)
    /\ SliceTooSmall(jrunner, Len(jmemory))

=============================================================================
